---- MODULE Spec2Model ----
(***************************************************************************)
(* Model of the Pioneer control task (Control::Pioneer::Task): the         *)
(* reliable (TCP) command/reply channel, the connectionless (UDP)          *)
(* telemetry channel, the two dispatchers, sendCommand, the watchdog and   *)
(* the time-sync policy.                                                   *)
(*                                                                         *)
(* Threads: "consumer" is the task's own thread (onMain, consume(...),     *)
(* onUpdateParameters); "udp" is the receive worker of the telemetry       *)
(* channel, which calls pioneerMessagesParse and, through setPioneerTime,  *)
(* sendCommand; the reply worker of the TCP channel only parses.           *)
(* sendCommand is two steps (guard and pack, then sendData and mirroring)  *)
(* so that the other thread can run between its isConnected check and its  *)
(* socket write.                                                           *)
(*                                                                         *)
(* Time is in whole seconds since the epoch; the device clock is in        *)
(* milliseconds.                                                           *)
(***************************************************************************)
EXTENDS Integers, Sequences, FiniteSets, TLC

\* ---------------------------------------------------------------- bounds
\* Local epoch time (s) at construction.
EpochStart == 10
\* Seconds the clock may advance past EpochStart.
MaxTime == 5
\* Largest value of a model byte of a received chunk.
MaxByte == 3
\* Largest length of a received chunk.
MaxLen == 4
\* Parameter updates delivered by the framework.
MaxUpdates == 2
\* Seconds of one long wait of the clock.
LongWait == 32766
\* The size of the sentence buffer of the SW100 driver that the model
\* explores, standing for sizeof(m_sentence).
SentenceSize == 4
\* The greatest number of bytes one modelled call of Driver::read receives.
MaxChunk == 2
\* The greatest number of frames the camera task counts.
MaxFrames == 9
\* The greatest length of the strings given to String::escape.
MaxStr == 3

\* ------------------------------------------------------ program constants
\* Minimum interval between two corrections, seconds (5.0).
c_set_time_interval == 5
\* Divergence threshold, milliseconds.
c_divergence_ms == 1100
\* Largest value of the int16_t field connection_duration.
c_int16_max == 32767
\* The values of a uint32_t, 2^32, as milliseconds: 4294967 s and 296 ms.
c_uint32 == [s |-> 4294967, ms |-> 296]
\* The largest divergence kept as a number of milliseconds.
c_div_cap == 2147483647
\* Default ports of the task's parameters.
c_tcp_port == 2011
c_udp_port == 2010

\* --------------------------------------------- protocol (headers not in src)
PIONEER_MSG_VERSION_1_TELEMETRY_CODE == 257
PIONEER_MSG_VERSION_2_TELEMETRY_CODE == 513
PIONEER_MSG_VERSION_2_COMPASS_CALIBRATION_CODE == 514
PIONEER_REPLY_VERSION_2_ACK == 1
PIONEER_REPLY_VERSION_2_PING == 2
PIONEER_REPLY_VERSION_2_GET_CAMERA == 3

Byte == 0..MaxByte
Addresses == {"127.0.0.1", "192.168.1.101"}
TcpPorts == {c_tcp_port, c_tcp_port + 1}
UdpPorts == {c_udp_port, c_udp_port + 2}
SenderPorts == {c_udp_port, c_udp_port + 1}
Threads == {"consumer", "udp"}
\* Raw depth fields of a telemetry record, in 1/1000 m.
RawDepths == {0, 999, 1500, 2001}
\* Roll, pitch and yaw of a telemetry record, degrees.
Level == [roll |-> 0, pitch |-> 0, yaw |-> 0]
Attitudes == {Level, [roll |-> 10, pitch |-> 0 - 5, yaw |-> 90]}
\* Local epoch milliseconds minus device milliseconds of a telemetry record.
DevOffsets == {0 - 1101, 1100, 1101}

Abs(x) == IF x < 0 THEN 0 - x ELSE x

\* Fixed record length of a message kind (model bytes).
FixedLen(kind) ==
  CASE kind = "V1Telemetry" -> 3
    [] kind = "V2Telemetry" -> 4
    [] kind = "V2CompassCalibration" -> 3
    [] kind = "ReplyAck" -> 2
    [] kind = "ReplyPing" -> 2
    [] kind = "ReplyGetCamera" -> 3
    [] OTHER -> 0

\* ProtocolPack::Pack::unpack: refuses a buffer shorter than the record's
\* fixed length (returns 0), raises on a malformed buffer, and otherwise
\* returns the record's length.
unpack(kind, length, malformed) ==
  IF malformed THEN [rb |-> 0, threw |-> TRUE]
  ELSE IF length < FixedLen(kind) THEN [rb |-> 0, threw |-> FALSE]
  ELSE [rb |-> FixedLen(kind), threw |-> FALSE]

\* ------------------------------------------------------------------ state
VARIABLES
  phase,          \* "constructed" | "running" | "failed" | "releasing" |
                  \* "released"
  m_args,         \* the task's Arguments
  updates,        \* parameter updates delivered so far
  now,            \* Time::Clock::getSinceEpoch(), seconds
  m_start_time,
  m_last_set_time,
  m_watchdog_msg, \* connection_duration of the watchdog record
  m_buf_send,     \* the shared send buffer: what was last packed into it
  tcp,            \* m_TCP_comm: [state, addr, port, worker]
  udp,            \* m_UDP_comm: [state, port, worker]
  entityState,    \* [state, code] last given to setEntityState
  pc,             \* per thread: "idle" | "send"
  pend,           \* per thread: the sendCommand call between its two steps
  syncSent,       \* times (s) at which a set-system-time command was sent
  prevFrame,      \* the last telemetry record offered to the time sync
  connFailed,     \* a connect of the reliable channel has failed and no
                  \* connect has been attempted since
  prevBeat,       \* the last own heartbeat consumed: when, whether the
                  \* channel was Connected, the duration put in the watchdog
  rel,            \* steps of onResourceRelease done so far
  m_loggers,      \* the three loggers: "none" | "created" | "started" |
                  \* "partial" (some started) | "stopped" | "destroyed"
  obs,            \* what the last step did
  sw,             \* the SW100 driver (Sensors::SW100::Driver) and the
                  \* position of its setup()
  m_error_missing,
  pg,             \* the PointGrey camera task
  str             \* the string handed to String::escape / unescape

vars == <<phase, m_args, updates, now, m_start_time, m_last_set_time,
          m_watchdog_msg, m_buf_send, tcp, udp, entityState, pc, pend,
          syncSent, prevFrame, connFailed, prevBeat, rel, m_loggers, obs,
          sw, m_error_missing, pg, str>>

\* The task's state apart from the observation of the last step.
taskVars ==
  <<phase, m_args, updates, now, m_start_time, m_last_set_time,
    m_watchdog_msg, m_buf_send, tcp, udp, entityState, pc, pend, syncSent,
    prevFrame, connFailed, prevBeat, rel, m_loggers, m_error_missing>>

DefaultArgs ==
  [listen_mode |-> FALSE,
   filter_udp_to_tcp_address |-> FALSE,
   generate_estimate_state_from_telemetry |-> FALSE,
   TCP_port |-> c_tcp_port,
   TCP_addr |-> "127.0.0.1",
   UDP_listen_port |-> c_udp_port,
   log_pioneer_raw |-> TRUE,
   log_pioneer_imc |-> FALSE,
   set_time_of_vehicle |-> TRUE]

ArgsSet ==
  [listen_mode : BOOLEAN,
   filter_udp_to_tcp_address : BOOLEAN,
   generate_estimate_state_from_telemetry : BOOLEAN,
   TCP_port : TcpPorts,
   TCP_addr : Addresses,
   UDP_listen_port : UdpPorts,
   log_pioneer_raw : BOOLEAN,
   log_pioneer_imc : BOOLEAN,
   set_time_of_vehicle : BOOLEAN]

\* A telemetry record as the time sync saw it: when, whether the policy was
\* on, the channel Connected and the clock diverged, whether a
\* set-system-time command was issued for it, and whether it was sent.
NoFrame == [t |-> 0, eligible |-> FALSE, issued |-> FALSE, sent |-> FALSE]

\* m_TCP_comm before resource acquisition.
NoComm ==
  [state |-> "Disconnected", addr |-> "none", port |-> 0, worker |-> FALSE]

NoBeat == [t |-> 0, conn |-> FALSE, dur |-> 0]

\* The observation of a step that did nothing observable.
NoObs ==
  [op |-> "none", thread |-> "none", done |-> TRUE,
   \* a dispatcher: its return value, the kind and length of the chunk
   ret |-> 0, kind |-> "none", len |-> 0, code |-> 0, codeBytes |-> 0,
   threw |-> FALSE, escaped |-> FALSE, handler |-> "none",
   echoCall |-> FALSE, echoed |-> FALSE, echoLen |-> 0, order |-> <<>>,
   \* a telemetry record: its raw depth field, and the messages its handler
   \* dispatched to the bus
   rawDepth |-> 0, attitude |-> Level, pub |-> <<>>,
   \* sendCommand: the guard's inputs, the write, the mirroring, its return
   sendCalled |-> FALSE, cmd |-> "none", caller |-> "none",
   listen |-> FALSE, conn |-> FALSE,
   sendData |-> FALSE, wrote |-> FALSE, connAtWrite |-> FALSE,
   listenAtWrite |-> FALSE, sd |-> 0,
   logged |-> FALSE, cmdEchoCall |-> FALSE, cmdEchoed |-> FALSE,
   errLogged |-> FALSE, packThrew |-> FALSE,
   \* setPioneerTime
   sync |-> "none", syncNow |-> 0, syncDiv |-> 0, lastBefore |-> 0,
   devOff |-> 0,
   eligible |-> FALSE, prev |-> NoFrame,
   \* the channels
   connects |-> 0, connFail |-> FALSE, changed |-> FALSE,
   disconnects |-> 0, acquired |-> FALSE, argsWas |-> DefaultArgs,
   tcpBefore |-> NoComm,
   tcpWas |-> "none", udpWas |-> "none",
   \* a heartbeat: its source is the system itself, the time it is
   \* consumed, the one before it
   own |-> FALSE, at |-> 0, beat |-> NoBeat,
   \* a logging session: the loggers on which start() and stop() were
   \* called
   startCalls |-> 0, stopCalls |-> 0,
   \* a datagram
   accepted |-> FALSE, dispatched |-> FALSE, sender |-> "none", sport |-> 0,
   filt |-> FALSE, peer |-> "none"]

\* The SW100 driver before setup(): st is the phase of setup ("idle",
\* "stop", "who", "rate", "cont", "done"), i the loop counter, count the
\* counter of the stop phase, empties the reads of the stop phase that
\* returned no data, writes the commands written to the stream, termIdx
\* the position of the terminating write bfr[rv] = 0, result what setup
\* returned.
NoDriver ==
  [st |-> "idle", i |-> 0, count |-> 0, empties |-> 0, passed |-> FALSE,
   answered |-> FALSE, stopPassed |-> FALSE, writes |-> <<>>, termIdx |-> 0,
   m_sentence_idx |-> 0, result |-> "none",
   m_sentence |-> [k \in 0..(SentenceSize - 1) |-> "?"], acc |-> <<>>,
   parts |-> 0, oob |-> FALSE, lastRead |-> "none"]

\* c_number_task_thread
c_number_task_thread == 8

\* The PointGrey camera task after construction: phase is the position in
\* the life of the task, m_save the worker slots ("none" before they are
\* assigned, "live" for a started worker, "NULL"), connected what
\* m_camera.IsConnected() returns, derefs the dereferences of
\* m_save[m_thread_cnt] made by the last operation (op).
NoCamera ==
  [phase |-> "constructed", m_thread_cnt |-> 0, m_frame_cnt |-> 0,
   m_save |-> [k \in 0..(c_number_task_thread - 1) |-> "none"],
   connected |-> FALSE, derefs |-> {}, op |-> "none"]

NoPend ==
  [cmd |-> "none", caller |-> "none", dataLength |-> 0, base |-> NoObs]


\* The characters of the strings given to String::escape: backslash,
\* newline, carriage return, tab, the letter n and another letter.
Chars == {"\\", "\n", "\r", "\t", "n", "a"}

\* The strings of at most MaxStr characters.
Strings == UNION {[1..n -> Chars] : n \in 0..MaxStr}

\* A string before String::escape is applied to it: s the input, escaped
\* the result of escape, unescaped the result of unescape, threw whether
\* unescape threw, all its argument unescape_all.
NoString ==
  [st |-> "input", s |-> <<>>, escaped |-> <<>>, unescaped |-> <<>>,
   threw |-> FALSE, all |-> FALSE]

\* The state after construction at the local time epoch, with one of the
\* strings inputs.
InitWith(epoch, inputs) ==
  /\ phase = "constructed"
  /\ m_args = DefaultArgs
  /\ updates = 0
  /\ now = epoch
  /\ m_start_time = epoch
  /\ m_last_set_time = 0
  /\ m_watchdog_msg = 0
  /\ m_buf_send = "none"
  /\ tcp = [state |-> "Disconnected", addr |-> "none", port |-> 0, worker |-> FALSE]
  /\ udp = [state |-> "Disconnected", port |-> 0, worker |-> FALSE]
  /\ entityState = [state |-> "ESTA_BOOT", code |-> "CODE_INIT"]
  /\ pc = [t \in Threads |-> "idle"]
  /\ pend = [t \in Threads |-> NoPend]
  /\ syncSent = <<>>
  /\ prevFrame = NoFrame
  /\ connFailed = FALSE
  /\ prevBeat = NoBeat
  /\ rel = 0
  /\ m_loggers = "none"
  /\ obs = NoObs
  /\ sw = NoDriver
  /\ m_error_missing = FALSE
  /\ pg = NoCamera
  /\ str \in {[NoString EXCEPT !.s = s] : s \in inputs}

\* The state after construction at the local time epoch.
InitAt(epoch) == InitWith(epoch, {<<>>})

Init == InitAt(EpochStart)

\* A construction more than 2^32 ms after the epoch (any date after
\* 19 February 1970), a whole number of long waits after EpochStart.
LateStart == EpochStart + 132 * LongWait

InitLate == InitAt(LateStart)

\* The clock advances by one second.
Tick ==
  /\ (now - EpochStart) % LongWait < MaxTime
  /\ now' = now + 1
  /\ obs' = NoObs
  /\ UNCHANGED <<phase, m_args, updates, m_start_time, m_last_set_time,
                 m_watchdog_msg, m_buf_send, tcp, udp, entityState, pc, pend,
                 syncSent, prevFrame, connFailed>>
  /\ UNCHANGED <<prevBeat, rel, m_loggers>>
  /\ UNCHANGED <<sw, m_error_missing, pg, str>>

\* The clock advances by a long wait, once.
Wait ==
  /\ now - EpochStart < LongWait
  /\ now' = now + LongWait
  /\ obs' = NoObs
  /\ UNCHANGED <<phase, m_args, updates, m_start_time, m_last_set_time,
                 m_watchdog_msg, m_buf_send, tcp, udp, entityState, pc, pend,
                 syncSent, prevFrame, connFailed, prevBeat, rel, m_loggers>>
  /\ UNCHANGED <<sw, m_error_missing, pg, str>>

\* ------------------------------------------------- the transport channels
\* TCPComm / UDPComm (Comm.hpp): connect() opens the socket to the
\* configured address and port and raises when that fails, leaving the
\* channel Disconnected; disconnect() closes the socket; reconnect() is
\* disconnect() then connect(); start()/stop() start and stop the worker.
CommDisconnect(c) == [c EXCEPT !.state = "Disconnected"]

CommConnect(c, ok) == IF ok THEN [c EXCEPT !.state = "Connected"] ELSE c

\* openConnectionTCP: the channel after it, whether connect() was called
\* and whether a failure was caught (catch (...): closeConnectionTCP(),
\* then the entity state CODE_COM_ERROR).
OpenConnectionTCP(c, args, ok) ==
  LET stopped == [c EXCEPT !.worker = FALSE] IN
  IF args.listen_mode
  THEN [comm |-> stopped, connects |-> 0, caught |-> FALSE, escaped |-> FALSE]
  ELSE LET conf == [CommDisconnect(stopped) EXCEPT
                      !.addr = args.TCP_addr, !.port = args.TCP_port] IN
       IF ok
       THEN [comm |-> [CommConnect(conf, TRUE) EXCEPT !.worker = TRUE],
             connects |-> 1, caught |-> FALSE, escaped |-> FALSE]
       ELSE [comm |-> CommDisconnect(conf), connects |-> 1, caught |-> TRUE,
             escaped |-> FALSE]

\* openConnectionUDP.
OpenConnectionUDP(c, args, ok) ==
  LET conf == [CommDisconnect([c EXCEPT !.worker = FALSE]) EXCEPT
                 !.port = args.UDP_listen_port] IN
  IF ok
  THEN [comm |-> [CommConnect(conf, TRUE) EXCEPT !.worker = TRUE],
        caught |-> FALSE]
  ELSE [comm |-> CommDisconnect(conf), caught |-> TRUE]

ComError == [state |-> "ESTA_NORMAL", code |-> "CODE_COM_ERROR"]

\* onResourceAcquisition: the loggers and the two channels are created,
\* then openConnectionTCP() and openConnectionUDP().
OnResourceAcquisition ==
  /\ phase = "constructed"
  /\ \E tcpOk \in BOOLEAN, udpOk \in BOOLEAN :
       LET t == OpenConnectionTCP(tcp, m_args, tcpOk)
           u == OpenConnectionUDP(udp, m_args, udpOk)
       IN /\ (m_args.listen_mode => tcpOk)
          /\ tcp' = t.comm
          /\ udp' = u.comm
          /\ entityState' = IF t.caught \/ u.caught THEN ComError
                            ELSE entityState
          /\ connFailed' = t.caught
          /\ obs' = [NoObs EXCEPT !.op = "onResourceAcquisition",
                                 !.thread = "consumer",
                                 !.connects = t.connects,
                                 !.connFail = (~tcpOk \/ ~udpOk),
                                 !.escaped = t.escaped]
  /\ phase' = "running"
  /\ UNCHANGED <<m_args, updates, now, m_start_time, m_last_set_time,
                 m_watchdog_msg, m_buf_send, pc, pend, syncSent, prevFrame>>
  /\ m_loggers' = "created"
  /\ UNCHANGED <<prevBeat, rel>>
  /\ UNCHANGED <<sw, m_error_missing, pg, str>>

\* The values a parameter takes.
ArgValues(f) ==
  CASE f = "TCP_addr" -> Addresses
    [] f = "TCP_port" -> TcpPorts
    [] f = "UDP_listen_port" -> UdpPorts
    [] OTHER -> BOOLEAN

\* The condition without the listen-only flag.
TcpParamChangedNoListen(old, new) ==
  \/ old.TCP_addr # new.TCP_addr
  \/ old.TCP_port # new.TCP_port

\* The condition without the port.
TcpParamChangedNoPort(old, new) ==
  \/ old.TCP_addr # new.TCP_addr
  \/ old.listen_mode # new.listen_mode

\* paramChanged(TCP_addr) || paramChanged(TCP_port) || paramChanged(listen_mode)
TcpParamChanged(old, new) ==
  \/ old.TCP_addr # new.TCP_addr
  \/ old.TCP_port # new.TCP_port
  \/ old.listen_mode # new.listen_mode

\* onUpdateParameters, run by the framework after it has stored the new
\* value of one of the parameters `fields` in m_args. Before resource
\* acquisition m_TCP_comm and m_UDP_comm are NULL. A connect() that fails
\* raises out of the handler (it has no try block), which ends the task.
OnUpdateParameters(fields) ==
  /\ phase \in {"constructed", "running"}
  /\ pc["consumer"] = "idle"
  /\ updates < MaxUpdates
  /\ updates' = updates + 1
  /\ \E f \in fields, tcpOk \in BOOLEAN, udpOk \in BOOLEAN :
     \E v \in ArgValues(f) \ {m_args[f]} :
       LET new == [m_args EXCEPT ![f] = v]
           doTcp == phase = "running" /\ TcpParamChanged(m_args, new)
           tcpConn == doTcp /\ ~new.listen_mode
           tcpRaise == tcpConn /\ ~tcpOk
           doUdp == /\ phase = "running"
                    /\ new.UDP_listen_port # m_args.UDP_listen_port
                    /\ ~tcpRaise
           udpRaise == doUdp /\ ~udpOk
           conf == [CommDisconnect(tcp) EXCEPT
                      !.addr = new.TCP_addr, !.port = new.TCP_port]
       IN /\ (~tcpConn => tcpOk) /\ (~doUdp => udpOk)
          /\ m_args' = new
          /\ tcp' = IF ~doTcp THEN tcp
                    ELSE IF new.listen_mode THEN conf
                    ELSE CommConnect(conf, tcpOk)
          /\ udp' = IF ~doUdp THEN udp
                    ELSE CommConnect(
                           [CommDisconnect(udp) EXCEPT
                              !.port = new.UDP_listen_port], udpOk)
          /\ phase' = IF tcpRaise \/ udpRaise THEN "failed" ELSE phase
          /\ connFailed' = IF tcpRaise THEN TRUE
                           ELSE IF tcpConn THEN FALSE ELSE connFailed
          /\ obs' = [NoObs EXCEPT !.op = "onUpdateParameters",
                                 !.thread = "consumer",
                                 !.changed = TcpParamChanged(m_args, new),
                                 !.disconnects = IF doTcp THEN 1 ELSE 0,
                                 !.acquired = (phase = "running"),
                                 !.argsWas = m_args,
                                 !.tcpBefore = tcp,
                                 !.connects = IF tcpConn THEN 1 ELSE 0,
                                 !.connFail = (tcpRaise \/ udpRaise),
                                 !.escaped = (tcpRaise \/ udpRaise)]
  /\ UNCHANGED <<now, m_start_time, m_last_set_time, m_watchdog_msg,
                 m_buf_send, entityState, pc, pend, syncSent, prevFrame>>
  /\ UNCHANGED <<prevBeat, rel, m_loggers>>
  /\ UNCHANGED <<sw, m_error_missing, pg, str>>

\* onMain restarting the time-sync interval on every iteration.
OnMainTouchesSyncTime ==
  /\ phase = "running"
  /\ pc["consumer"] = "idle"
  /\ entityState' = [state |-> "ESTA_NORMAL", code |-> "CODE_ACTIVE"]
  /\ m_last_set_time' = now
  /\ obs' = [NoObs EXCEPT !.op = "onMain", !.thread = "consumer"]
  /\ UNCHANGED <<phase, m_args, updates, now, m_start_time, m_watchdog_msg,
                 m_buf_send, tcp, udp, pc, pend, syncSent, prevFrame,
                 connFailed, prevBeat, rel, m_loggers>>
  /\ UNCHANGED <<sw, m_error_missing, pg, str>>

\* onMain with a retry of the reliable channel added to the loop: what the
\* code would do if reconnection were periodic.
OnMainRetry ==
  /\ phase = "running"
  /\ pc["consumer"] = "idle"
  /\ entityState' = [state |-> "ESTA_NORMAL", code |-> "CODE_ACTIVE"]
  /\ \E ok \in BOOLEAN :
       LET retry == tcp.state = "Disconnected" /\ ~m_args.listen_mode IN
       /\ (~retry => ok)
       /\ tcp' = IF retry THEN CommConnect(tcp, ok) ELSE tcp
       /\ obs' = [NoObs EXCEPT !.op = "onMain", !.thread = "consumer",
                              !.connects = IF retry THEN 1 ELSE 0]
  /\ UNCHANGED <<phase, m_args, updates, now, m_start_time, m_last_set_time,
                 m_watchdog_msg, m_buf_send, udp, pc, pend, syncSent,
                 prevFrame, connFailed>>
  /\ UNCHANGED <<prevBeat, rel, m_loggers>>
  /\ UNCHANGED <<sw, m_error_missing, pg, str>>

Active == [state |-> "ESTA_NORMAL", code |-> "CODE_ACTIVE"]

\* A main loop that leaves a communication error in place.
EntityStateAfterMainKeepsError(es, missing) ==
  IF missing \/ es = ComError THEN es ELSE Active

\* if (!m_error_missing) setEntityState(ESTA_NORMAL, CODE_ACTIVE);
EntityStateAfterMain(es, missing) == IF ~missing THEN Active ELSE es

\* One iteration of onMain's loop: the entity state is set to
\* NORMAL/ACTIVE unless m_error_missing; then consumeMessages() (the
\* consume(...) actions) and the 500 ms wait.
OnMain ==
  /\ phase = "running"
  /\ pc["consumer"] = "idle"
  /\ entityState' = EntityStateAfterMain(entityState, m_error_missing)
  /\ obs' = [NoObs EXCEPT !.op = "onMain", !.thread = "consumer"]
  /\ UNCHANGED <<phase, m_args, updates, now, m_start_time, m_last_set_time,
                 m_watchdog_msg, m_buf_send, tcp, udp, pc, pend, syncSent,
                 prevFrame, connFailed>>
  /\ UNCHANGED <<prevBeat, rel, m_loggers>>
  /\ UNCHANGED <<sw, m_error_missing, pg, str>>

\* ------------------------------------------------------------ sendCommand
\* sendCommand without its guard.
SendNeverSuppressed(args, c) == FALSE

\* sendCommand with a guard that tests only listen_mode.
SendSuppressedListenOnly(args, c) == args.listen_mode

\* The guard of sendCommand: nothing is packed or sent.
SendSuppressed(args, c) == args.listen_mode \/ c.state # "Connected"

\* ProtocolPack::Pack::pack: the serialized length of a command.
pack(cmd) ==
  CASE cmd = "CmdVersion1Watchdog" -> 3
    [] cmd = "CmdVersion1UserGeoLocation" -> 4
    [] cmd = "CmdVersion2SetSystemTime" -> 2
    [] OTHER -> 1

\* TCPComm::sendData: a no-op returning 0 when the channel is Disconnected;
\* otherwise it writes to the socket and returns the byte count, or raises
\* on a socket failure.
sendData(c, dataLength, ok) ==
  IF c.state # "Connected"
  THEN [sd |-> 0, wrote |-> FALSE, raised |-> FALSE]
  ELSE IF ok THEN [sd |-> dataLength, wrote |-> TRUE, raised |-> FALSE]
  ELSE [sd |-> 0, wrote |-> TRUE, raised |-> TRUE]

\* Mirroring whatever sendData returned.
MirrorsAlways(sd) == sd >= 0

\* if (sd > 0): sendCommand mirrors the bytes to the command logger and to
\* dispatchAsDevDataBinary.
Mirrors(sd) == sd > 0

\* dispatchAsDevDataBinary dispatches a DevDataBinary only with
\* log_pioneer_imc set.
EchoDispatched(args) == args.log_pioneer_imc

\* sendCommand without its try/catch: the error of pack leaves it.
SendNoCatch(threw) ==
  [sd |-> 0, errLogged |-> FALSE, escaped |-> threw]

\* The try/catch of sendCommand around pack and sendData: the error is
\* logged and sd, still 0, is returned.
SendCatch(threw) ==
  [sd |-> 0, errLogged |-> threw, escaped |-> FALSE]

\* What sendCommand records at its guard.
SendBase(base, cmd, caller) ==
  [base EXCEPT !.sendCalled = TRUE, !.cmd = cmd, !.caller = caller,
               !.listen = m_args.listen_mode,
               !.conn = (tcp.state = "Connected")]

\* The first step of sendCommand on thread t: the guard, then pack into
\* m_buf_send. A pack that raises is caught and logged, and 0 is returned.
SendBegin(t, cmd, caller, base, packThrows) ==
  LET b == SendBase(base, cmd, caller) IN
  IF SendSuppressed(m_args, tcp) \/ packThrows
  THEN LET threw == packThrows /\ ~SendSuppressed(m_args, tcp) IN
       /\ obs' = [b EXCEPT !.done = TRUE,
                           !.packThrew = threw,
                           !.sd = SendCatch(threw).sd,
                           !.errLogged = SendCatch(threw).errLogged,
                           !.escaped = SendCatch(threw).escaped]
       /\ UNCHANGED <<pc, pend, m_buf_send>>
  ELSE /\ pc' = [pc EXCEPT ![t] = "send"]
       /\ pend' = [pend EXCEPT ![t] =
                     [cmd |-> cmd, caller |-> caller,
                      dataLength |-> pack(cmd), base |-> b]]
       /\ m_buf_send' = cmd
       /\ obs' = [b EXCEPT !.done = FALSE]

\* What the rest of sendCommand adds to the observation.
SendResult(base, r, args) ==
  [base EXCEPT !.sendData = TRUE,
               !.wrote = r.wrote,
               !.connAtWrite = (tcp.state = "Connected"),
               !.listenAtWrite = args.listen_mode,
               !.sd = r.sd,
               !.logged = Mirrors(r.sd),
               !.cmdEchoCall = Mirrors(r.sd),
               !.cmdEchoed = (Mirrors(r.sd) /\ EchoDispatched(args)),
               !.errLogged = r.raised]

\* The value of x in 16 bits, two's complement.
Int16Wrap(x) ==
  ((x + c_int16_max + 1) % (2 * (c_int16_max + 1))) - (c_int16_max + 1)

\* (int16_t) of a double: the value when it fits; out of range the
\* conversion is undefined, and yields the wrapped or the saturated value.
Int16Cast(x) ==
  IF 0 - (c_int16_max + 1) <= x /\ x <= c_int16_max
  THEN {x}
  ELSE {Int16Wrap(x), c_int16_max}

\* A watchdog for every heartbeat, whatever its source.
WatchdogDueAnySource(connected, own) == connected

\* m_TCP_comm->isConnected() && msg->getSource() == getSystemId()
WatchdogDue(connected, own) == connected /\ own

\* consume(Heartbeat): the watchdog is resent when the channel is
\* Connected and the heartbeat is the system's own.
ConsumeHeartbeat ==
  /\ phase = "running"
  /\ pc["consumer"] = "idle"
  /\ \E own \in BOOLEAN, packThrows \in BOOLEAN,
        dur \in Int16Cast(now - m_start_time) :
       LET connected == tcp.state = "Connected"
           base == [NoObs EXCEPT !.op = "consume(Heartbeat)",
                                 !.thread = "consumer",
                                 !.listen = m_args.listen_mode,
                                 !.conn = connected,
                                 !.own = own,
                                 !.at = now,
                                 !.beat = prevBeat] IN
       /\ prevBeat' = IF own
                      THEN [t |-> now, conn |-> connected,
                            dur |-> IF connected THEN dur
                                    ELSE m_watchdog_msg]
                      ELSE prevBeat
       /\ IF WatchdogDue(connected, own)
          THEN /\ (SendSuppressed(m_args, tcp) => ~packThrows)
               /\ m_watchdog_msg' = dur
               /\ SendBegin("consumer", "CmdVersion1Watchdog", "heartbeat",
                            base, packThrows)
          ELSE /\ ~packThrows
               /\ dur = Int16Wrap(now - m_start_time)
               /\ obs' = base
               /\ UNCHANGED <<m_watchdog_msg, pc, pend, m_buf_send>>
  /\ UNCHANGED <<phase, m_args, updates, now, m_start_time, m_last_set_time,
                 tcp, udp, entityState, syncSent, prevFrame, connFailed>>
  /\ UNCHANGED <<rel, m_loggers>>
  /\ UNCHANGED <<sw, m_error_missing, pg, str>>

\* The geolocation command for every navigation-state update.
GeoLocationDueAlways(args) == TRUE

\* if (m_args.generate_estimate_state_from_telemetry) return;
GeoLocationDue(args) == ~args.generate_estimate_state_from_telemetry

\* consume(EstimatedState): the geolocation command, unless the task
\* generates the estimate itself.
ConsumeEstimatedState ==
  /\ phase = "running"
  /\ pc["consumer"] = "idle"
  /\ \E packThrows \in BOOLEAN :
       LET base == [NoObs EXCEPT !.op = "consume(EstimatedState)",
                                 !.thread = "consumer",
                                 !.argsWas = m_args,
                                 !.listen = m_args.listen_mode] IN
       IF ~GeoLocationDue(m_args)
       THEN /\ ~packThrows
            /\ obs' = base
            /\ UNCHANGED <<pc, pend, m_buf_send>>
       ELSE /\ (SendSuppressed(m_args, tcp) => ~packThrows)
            /\ SendBegin("consumer", "CmdVersion1UserGeoLocation", "estate",
                         base, packThrows)
  /\ UNCHANGED <<phase, m_args, updates, now, m_start_time, m_last_set_time,
                 m_watchdog_msg, tcp, udp, entityState, syncSent, prevFrame,
                 connFailed>>
  /\ UNCHANGED <<prevBeat, rel, m_loggers>>
  /\ UNCHANGED <<sw, m_error_missing, pg, str>>

\* The loggers of m_loggers: commands, replies, telemetry.
c_loggers == 3

\* The loggers started on every COP_STARTED, whatever the flag.
LoggersStartAnyFlag(op, args) == op = "COP_STARTED"

\* case COP_STARTED: if (m_args.log_pioneer_raw)
LoggersStart(op, args) == op = "COP_STARTED" /\ args.log_pioneer_raw

\* consume(LoggingControl): on COP_STARTED start() is called on each logger
\* with the session folder when log_pioneer_raw is set (a start that raises
\* ends the loop, is caught and logged: failAt is the logger whose start
\* raises, 0 for none); on COP_STOPPED stop() is called on each; any other
\* operation is ignored.
ConsumeLoggingControl ==
  /\ phase = "running"
  /\ pc["consumer"] = "idle"
  /\ \E op \in {"COP_STARTED", "COP_STOPPED", "COP_REQUEST_START"},
        failAt \in 0..c_loggers :
       LET starts == LoggersStart(op, m_args) IN
       /\ (~starts => failAt = 0)
       /\ m_loggers' = IF starts
                       THEN (IF failAt = 0 THEN "started"
                             ELSE IF failAt = 1 THEN m_loggers
                             ELSE "partial")
                       ELSE IF op = "COP_STOPPED" THEN "stopped"
                       ELSE m_loggers
       /\ obs' = [NoObs EXCEPT !.op = "consume(LoggingControl)",
                              !.thread = "consumer", !.handler = op,
                              !.argsWas = m_args,
                              !.startCalls =
                                 IF ~starts THEN 0
                                 ELSE IF failAt = 0 THEN c_loggers
                                 ELSE failAt,
                              !.stopCalls =
                                 IF op = "COP_STOPPED" THEN c_loggers ELSE 0,
                              !.errLogged = (failAt > 0)]
  /\ UNCHANGED <<phase, m_args, updates, now, m_start_time, m_last_set_time,
                 m_watchdog_msg, m_buf_send, tcp, udp, entityState, pc, pend,
                 syncSent, prevFrame, connFailed, prevBeat, rel>>
  /\ UNCHANGED <<sw, m_error_missing, pg, str>>

\* ------------------------------------------------------- the dispatchers
\* The bytes of the chunk, from startIndex on, that a dispatcher reads for
\* its switch: buf[startIndex] and buf[startIndex + 1] for telemetry,
\* buf[startIndex] for replies. Neither tests length before it reads.
CodeBytes(op) == IF op = "pioneerMessagesParse" THEN 2 ELSE 1

\* The two leading bytes combined: (buf[startIndex] << 8) + buf[startIndex + 1].
TelemetryCode(b0, b1) == b0 * 256 + b1

\* The switch of pioneerMessagesParse.
MessageKind(code) ==
  CASE code = PIONEER_MSG_VERSION_1_TELEMETRY_CODE -> "V1Telemetry"
    [] code = PIONEER_MSG_VERSION_2_TELEMETRY_CODE -> "V2Telemetry"
    [] code = PIONEER_MSG_VERSION_2_COMPASS_CALIBRATION_CODE
         -> "V2CompassCalibration"
    [] OTHER -> "unknown"

\* The switch with a default branch that falls into the ack case.
ReplyKindDefaultAck(code) ==
  CASE code = PIONEER_REPLY_VERSION_2_PING -> "ReplyPing"
    [] code = PIONEER_REPLY_VERSION_2_GET_CAMERA -> "ReplyGetCamera"
    [] OTHER -> "ReplyAck"

\* The switch of pioneerCommandRepliesParse.
ReplyKind(code) ==
  CASE code = PIONEER_REPLY_VERSION_2_ACK -> "ReplyAck"
    [] code = PIONEER_REPLY_VERSION_2_PING -> "ReplyPing"
    [] code = PIONEER_REPLY_VERSION_2_GET_CAMERA -> "ReplyGetCamera"
    [] OTHER -> "unknown"

HandlerOf(kind) ==
  CASE kind = "V1Telemetry" -> "handlePioneerV1Telemetry"
    [] kind = "V2Telemetry" -> "handlePioneerV2Telemetry"
    [] kind = "V2CompassCalibration" -> "handlePioneerV2CompassCalibration"
    [] kind = "ReplyAck" -> "handlePioneerV2ReplyAck"
    [] kind = "ReplyPing" -> "handlePioneerV2ReplyPing"
    [] kind = "ReplyGetCamera" -> "handlePioneerV2ReplyGetCamera"
    [] OTHER -> "none"

\* The test with >= in place of >.
RecordDecodedNonNegative(rb) == rb >= 0

\* if (rb > 0): the record was decoded, and is echoed and handled.
RecordDecoded(rb) == rb > 0

\* A dispatcher without its try/catch: the error leaves it.
DispatchNoCatch(rb, threw) == [ret |-> rb, escaped |-> threw]

\* The try/catch of a dispatcher: what it returns, and whether the error
\* leaves it.
DispatchCatch(rb, threw) ==
  IF threw THEN [ret |-> 0, escaped |-> FALSE]
  ELSE [ret |-> rb, escaped |-> FALSE]

\* setPioneerTime called for every decoded record.
TimeSyncedEveryRecord(kind) == TRUE

\* The cases that call setPioneerTime(msg): the two telemetry formats,
\* whose records carry the device clock.
TimeSynced(kind) == kind \in {"V1Telemetry", "V2Telemetry"}

\* A value with three decimals: whole + frac / 1000.
Milli(whole, frac) == [whole |-> whole, frac |-> frac]

\* The depth with an integer division: msg.depth / 1000 on integers.
DepthValueTruncated(raw) == Milli(raw \div 1000, 0)

\* depth.value = (fp32_t) msg.depth / 1000: the cast applies to msg.depth,
\* so the division is a floating-point one and keeps the thousandths.
DepthValue(raw) == Milli(raw \div 1000, raw % 1000)

\* Angles::radians: the angle of deg degrees, in radians (kept as the
\* degrees it was converted from; the factor pi / 180 is not an integer).
radians(deg) == [rad_of_deg |-> deg]

\* handlePioneerV2Telemetry: the messages it dispatches, in order. The
\* estimate carries estate.depth = (fp64_t) msg.depth.
handlePioneerV2Telemetry(msg, args) ==
  <<[type |-> "Depth", value |-> DepthValue(msg.depth)],
    [type |-> "EulerAngles",
     phi |-> radians(msg.roll), theta |-> radians(msg.pitch),
     psi |-> radians(msg.yaw)],
    [type |-> "Temperature"]>>
  \o (IF args.generate_estimate_state_from_telemetry
      THEN <<[type |-> "EstimatedState",
              depth |-> Milli(msg.depth, 0),
              phi |-> radians(msg.roll), theta |-> radians(msg.pitch),
              psi |-> radians(msg.yaw)]>>
      ELSE <<>>)

\* The messages the handler of a decoded record dispatches: the other
\* handlers only write a debug line.
Published(kind, raw, att, args) ==
  IF kind = "V2Telemetry"
  THEN handlePioneerV2Telemetry(
         [depth |-> raw, roll |-> att.roll, pitch |-> att.pitch,
          yaw |-> att.yaw], args)
  ELSE <<>>

\* The calls a dispatcher makes for a record it decoded (rb > 0), in
\* program order.
DecodedOrder(kind) ==
  IF TimeSynced(kind)
  THEN <<"setPioneerTime", "dispatchAsDevDataBinary", HandlerOf(kind)>>
  ELSE <<"dispatchAsDevDataBinary", HandlerOf(kind)>>

\* What a dispatcher does with a record it decoded (rb > 0): the raw echo
\* and the record's handler.
Decoded(base, kind, args) ==
  [base EXCEPT !.done = TRUE, !.echoCall = TRUE,
               !.echoed = EchoDispatched(args), !.echoLen = base.ret,
               !.handler = HandlerOf(kind), !.order = DecodedOrder(kind),
               !.pub = Published(kind, base.rawDepth, base.attitude, args)]

\* A dispatcher's observation when no record was decoded: the code is not
\* recognized (rb stays 0), unpack returned no record, or unpack raised.
NotDecoded(base, u) ==
  [base EXCEPT !.done = TRUE, !.threw = u.threw,
               !.ret = DispatchCatch(u.rb, u.threw).ret,
               !.escaped = DispatchCatch(u.rb, u.threw).escaped]

\* ------------------------------------------------------------- time sync
\* setPioneerTime without the test of listen_mode.
SyncGateIgnoresListen(args, t, last) ==
  ~args.set_time_of_vehicle \/ t - last < c_set_time_interval

\* setPioneerTime without the minimum interval.
SyncGateNoInterval(args, t, last) ==
  ~args.set_time_of_vehicle \/ args.listen_mode

\* setPioneerTime returns at once: the policy is off, or the last
\* correction is less than 5 s old.
SyncGateClosed(args, t, last) ==
  \/ ~args.set_time_of_vehicle
  \/ args.listen_mode
  \/ t - last < c_set_time_interval

\* Times in milliseconds are kept as seconds and milliseconds, the value
\* being s * 1000 + ms with ms in 0..999: epoch milliseconds exceed 2^31.
MsOfSeconds(t) == [s |-> t, ms |-> 0]

\* a - b.
MsMinus(a, b) ==
  IF a.ms >= b.ms THEN [s |-> a.s - b.s, ms |-> a.ms - b.ms]
  ELSE [s |-> a.s - b.s - 1, ms |-> a.ms - b.ms + 1000]

\* a - off, off a number of milliseconds.
MsSub(a, off) ==
  [s |-> a.s + ((a.ms - off) \div 1000), ms |-> (a.ms - off) % 1000]

MsLess(a, b) == a.s < b.s \/ (a.s = b.s /\ a.ms < b.ms)

MsAbs(a) ==
  IF a.s >= 0 THEN a
  ELSE IF a.ms = 0 THEN [s |-> 0 - a.s, ms |-> 0]
  ELSE [s |-> 0 - a.s - 1, ms |-> 1000 - a.ms]

\* The conversion of a non-negative value to the uint32_t parameter of
\* setPioneerTime: the value modulo 2^32.
RECURSIVE UInt32(_)
UInt32(x) == IF MsLess(x, c_uint32) THEN x ELSE UInt32(MsMinus(x, c_uint32))

\* std::abs(time_sec * 1E3 - timeFromVehicleMsec), in milliseconds, kept
\* up to c_div_cap.
DivergenceMs(t, dev) ==
  LET d == MsAbs(MsMinus(MsOfSeconds(t), dev)) IN
  IF d.s >= c_div_cap \div 1000 THEN c_div_cap ELSE d.s * 1000 + d.ms

\* The divergence test with >= in place of >.
DivergedAtThreshold(t, dev) == DivergenceMs(t, dev) >= c_divergence_ms

\* std::abs(time_sec * 1E3 - timeFromVehicleMsec) > 1100
Diverged(t, dev) == DivergenceMs(t, dev) > c_divergence_ms

\* The frame a telemetry record leaves in prevFrame.
FrameOf(o, sent) ==
  [t |-> o.syncNow, eligible |-> o.eligible, issued |-> o.sync = "issued",
   sent |-> sent]

\* An acceptance predicate that also wants the sender's port to be the
\* telemetry port.
AcceptanceWithPort(args, address, port) ==
  (~args.filter_udp_to_tcp_address \/ args.TCP_addr = address)
    /\ port = c_udp_port

\* udp_package_acceptance
udp_package_acceptance(args, address, port) ==
  IF ~args.filter_udp_to_tcp_address \/ args.TCP_addr = address
  THEN TRUE ELSE FALSE

\* The telemetry worker receives a datagram: the acceptance predicate, then
\* pioneerMessagesParse on the chunk, up to the end of the dispatcher or to
\* the second step of a sendCommand made by setPioneerTime. The datagram's
\* sender, leading bytes, length, device clock, depth and attitude are from
\* the sets given.
UdpReceive(senders, sports, b0s, b1s, lengths, offsets, depths, attitudes) ==
  /\ phase \in {"running", "releasing"}
  /\ udp.state = "Connected" /\ udp.worker
  /\ pc["udp"] = "idle"
  /\ \E sender \in senders, sport \in sports :
       LET acc == udp_package_acceptance(m_args, sender, sport)
           dg == [NoObs EXCEPT !.op = "pioneerMessagesParse",
                               !.thread = "udp",
                               !.listen = m_args.listen_mode,
                               !.argsWas = m_args,
                               !.accepted = acc, !.dispatched = acc,
                               !.sender = sender, !.sport = sport,
                               !.filt = m_args.filter_udp_to_tcp_address,
                               !.peer = m_args.TCP_addr,
                               !.tcpWas = tcp.state, !.udpWas = udp.state]
       IN
       IF ~acc
       THEN /\ obs' = [dg EXCEPT !.op = "udpDropped"]
            /\ UNCHANGED <<pc, pend, m_buf_send, prevFrame>>
       ELSE \E b0 \in b0s, b1 \in b1s, length \in lengths :
         LET kind == MessageKind(TelemetryCode(b0, b1))
             base == [dg EXCEPT !.kind = kind, !.len = length,
                                !.code = TelemetryCode(b0, b1),
                                !.codeBytes = CodeBytes("pioneerMessagesParse")]
         IN
         IF kind = "unknown"
         THEN /\ obs' = NotDecoded(base, [rb |-> 0, threw |-> FALSE])
              /\ UNCHANGED <<pc, pend, m_buf_send, prevFrame>>
         ELSE \E malformed \in BOOLEAN :
           LET u == unpack(kind, length, malformed) IN
           IF u.threw \/ ~RecordDecoded(u.rb)
           THEN /\ obs' = NotDecoded(base, u)
                /\ UNCHANGED <<pc, pend, m_buf_send, prevFrame>>
           ELSE IF ~TimeSynced(kind)
           THEN /\ obs' = Decoded([base EXCEPT !.ret = u.rb], kind, m_args)
                /\ UNCHANGED <<pc, pend, m_buf_send, prevFrame>>
           ELSE \E off \in offsets, packThrows \in BOOLEAN,
                   raw \in IF kind = "V2Telemetry" THEN depths ELSE {0},
                   att \in IF kind = "V2Telemetry" THEN attitudes
                           ELSE {Level} :
             LET dev == UInt32(MsSub(MsOfSeconds(now), off))
                 closed == SyncGateClosed(m_args, now, m_last_set_time)
                 issue == ~closed /\ Diverged(now, dev)
                 sb == [base EXCEPT
                          !.ret = u.rb,
                          !.rawDepth = raw,
                          !.attitude = att,
                          !.sync = IF closed THEN "skipped"
                                   ELSE IF issue THEN "issued"
                                   ELSE "noDiverge",
                          !.syncNow = now,
                          !.syncDiv = DivergenceMs(now, dev),
                          !.devOff = off,
                          !.lastBefore = m_last_set_time,
                          !.prev = prevFrame,
                          !.eligible =
                             (/\ m_args.set_time_of_vehicle
                              /\ ~m_args.listen_mode
                              /\ tcp.state = "Connected"
                              /\ DivergenceMs(now, dev) > c_divergence_ms)]
             IN
             IF ~issue
             THEN /\ ~packThrows
                  /\ obs' = Decoded(sb, kind, m_args)
                  /\ prevFrame' = FrameOf(sb, FALSE)
                  /\ UNCHANGED <<pc, pend, m_buf_send>>
             ELSE /\ (SendSuppressed(m_args, tcp) => ~packThrows)
                  /\ IF SendSuppressed(m_args, tcp) \/ packThrows
                     THEN /\ obs' = Decoded(
                                [SendBase(sb, "CmdVersion2SetSystemTime",
                                          "timesync")
                                   EXCEPT
                                     !.packThrew = packThrows,
                                     !.sd = SendCatch(packThrows).sd,
                                     !.errLogged =
                                        SendCatch(packThrows).errLogged,
                                     !.escaped =
                                        SendCatch(packThrows).escaped],
                                kind, m_args)
                          /\ prevFrame' = FrameOf(sb, FALSE)
                          /\ UNCHANGED <<pc, pend, m_buf_send>>
                     ELSE /\ SendBegin("udp", "CmdVersion2SetSystemTime",
                                       "timesync", sb, FALSE)
                          /\ UNCHANGED prevFrame
  /\ UNCHANGED <<phase, m_args, updates, now, m_start_time, m_last_set_time,
                 m_watchdog_msg, tcp, udp, entityState, syncSent, connFailed>>
  /\ UNCHANGED <<prevBeat, rel, m_loggers>>
  /\ UNCHANGED <<sw, m_error_missing, pg, str>>

\* The second step of sendCommand on thread t: sendData, the mirroring to
\* the command logger and the echo, and the return to the caller. The
\* caller setPioneerTime records the correction when the count is
\* positive, and pioneerMessagesParse then echoes and handles the record.
SendWrite(t) ==
  /\ pc[t] = "send"
  /\ \E ok \in BOOLEAN :
       LET r == sendData(tcp, pend[t].dataLength, ok)
           res == SendResult(pend[t].base, r, m_args)
       IN /\ (tcp.state # "Connected" => ok)
          /\ IF pend[t].caller = "timesync"
             THEN /\ m_last_set_time' = IF r.sd > 0 THEN now
                                        ELSE m_last_set_time
                  /\ syncSent' = IF r.sd > 0 THEN Append(syncSent, now)
                                 ELSE syncSent
                  /\ prevFrame' = FrameOf(res, r.sd > 0)
                  /\ obs' = Decoded(res, res.kind, m_args)
             ELSE /\ obs' = [res EXCEPT !.done = TRUE]
                  /\ UNCHANGED <<m_last_set_time, syncSent, prevFrame>>
  /\ pc' = [pc EXCEPT ![t] = "idle"]
  /\ pend' = [pend EXCEPT ![t] = NoPend]
  /\ UNCHANGED <<phase, m_args, updates, now, m_start_time, m_watchdog_msg,
                 m_buf_send, tcp, udp, entityState, connFailed>>
  /\ UNCHANGED <<prevBeat, rel, m_loggers>>
  /\ UNCHANGED <<sw, m_error_missing, pg, str>>

\* The reply worker receives a chunk: pioneerCommandRepliesParse.
TcpReceive(b0s, lengths) ==
  /\ phase \in {"running", "releasing"}
  /\ tcp.state = "Connected" /\ tcp.worker
  /\ \E b0 \in b0s, length \in lengths :
       LET kind == ReplyKind(b0)
           base == [NoObs EXCEPT !.op = "pioneerCommandRepliesParse",
                                 !.thread = "tcp",
                                 !.kind = kind, !.len = length,
                                 !.code = b0,
                                 !.codeBytes =
                                    CodeBytes("pioneerCommandRepliesParse"),
                                 !.tcpWas = tcp.state, !.udpWas = udp.state]
       IN
       IF kind = "unknown"
       THEN obs' = NotDecoded(base, [rb |-> 0, threw |-> FALSE])
       ELSE \E malformed \in BOOLEAN :
         LET u == unpack(kind, length, malformed) IN
         IF u.threw \/ ~RecordDecoded(u.rb)
         THEN obs' = NotDecoded(base, u)
         ELSE obs' = Decoded([base EXCEPT !.ret = u.rb], kind, m_args)
  /\ UNCHANGED <<phase, m_args, updates, now, m_start_time, m_last_set_time,
                 m_watchdog_msg, m_buf_send, tcp, udp, entityState, pc, pend,
                 syncSent, prevFrame, connFailed>>
  /\ UNCHANGED <<prevBeat, rel, m_loggers>>
  /\ UNCHANGED <<sw, m_error_missing, pg, str>>

\* ------------------------------------------------------ onResourceRelease
\* Thread::stop asks the worker to end: it takes no new chunk. Thread::join
\* returns when the worker has left the dispatcher it was in.
WorkerRunning(t) ==
  IF t = "udp" THEN udp.worker \/ pc["udp"] # "idle" ELSE tcp.worker

\* The statements of onResourceRelease, in program order.
ReleaseOrderLoggersFirst ==
  <<"loggers.stop", "loggers.join", "loggers.delete",
    "tcp.stop", "tcp.join", "tcp.clear",
    "udp.stop", "udp.join", "udp.clear">>

ReleaseOrder ==
  <<"tcp.stop", "tcp.join", "tcp.clear",
    "udp.stop", "udp.join", "udp.clear",
    "loggers.stop", "loggers.join", "loggers.delete">>

\* The next statement of onResourceRelease, on the consumer thread. The
\* workers run between its statements.
OnResourceRelease ==
  /\ phase \in {"running", "releasing"}
  /\ pc["consumer"] = "idle"
  /\ rel < Len(ReleaseOrder)
  /\ LET ev == ReleaseOrder[rel + 1] IN
     /\ (ev = "udp.join" => pc["udp"] = "idle")
     /\ tcp' = CASE ev = "tcp.stop" -> [tcp EXCEPT !.worker = FALSE]
                 [] ev = "tcp.clear" -> [tcp EXCEPT !.state = "Released"]
                 [] OTHER -> tcp
     /\ udp' = CASE ev = "udp.stop" -> [udp EXCEPT !.worker = FALSE]
                 [] ev = "udp.clear" -> [udp EXCEPT !.state = "Released"]
                 [] OTHER -> udp
     /\ m_loggers' = CASE ev = "loggers.stop" -> "stopped"
                       [] ev = "loggers.delete" -> "destroyed"
                       [] OTHER -> m_loggers
     /\ obs' = [NoObs EXCEPT !.op = "onResourceRelease",
                            !.thread = "consumer", !.handler = ev,
                            !.done = (rel + 1 = Len(ReleaseOrder))]
  /\ rel' = rel + 1
  /\ phase' = IF rel + 1 = Len(ReleaseOrder) THEN "released" ELSE "releasing"
  /\ UNCHANGED <<m_args, updates, now, m_start_time, m_last_set_time,
                 m_watchdog_msg, m_buf_send, entityState, pc, pend, syncSent,
                 prevFrame, connFailed, prevBeat>>
  /\ UNCHANGED <<sw, m_error_missing, pg, str>>

\* ------------------------------------------- the SW100 driver: setup()
\* READ_RETRIES
READ_RETRIES == 10
\* sizeof(bfr)
c_bfr_size == 64

\* if (rv == 0 && count++ == READ_RETRIES): the comparison sees the
\* counter before the increment.
StopPassed(rv, count) == rv = 0 /\ count = READ_RETRIES

\* setup() starts: the sentence index is reset and the stop-continuous
\* command is written.
DriverSetupBegin ==
  /\ sw.st = "idle"
  /\ sw' = [NoDriver EXCEPT !.st = "stop",
                            !.writes = <<"CMD_STOP_CONTINUOUS">>]
  /\ UNCHANGED <<taskVars, obs, pg, str>>

\* One iteration of the loop of the stop phase: a read that returns no
\* data (0) or some bytes.
DriverStopRead ==
  /\ sw.st = "stop"
  /\ ~sw.passed
  /\ sw.i < READ_RETRIES * 5
  /\ \E rv \in {0, 1, c_bfr_size} :
       sw' = [sw EXCEPT
                !.count = IF rv = 0 THEN sw.count + 1 ELSE sw.count,
                !.empties = IF rv = 0 THEN sw.empties + 1 ELSE sw.empties,
                !.passed = StopPassed(rv, sw.count),
                !.i = IF StopPassed(rv, sw.count) THEN sw.i ELSE sw.i + 1]
  /\ UNCHANGED <<taskVars, obs, pg, str>>

\* After the loop of the stop phase: setup returns false, or goes on to ask
\* who is there.
DriverStopEnd ==
  /\ sw.st = "stop"
  /\ sw.passed \/ sw.i = READ_RETRIES * 5
  /\ sw' = IF ~sw.passed
           THEN [sw EXCEPT !.st = "done", !.result = "false"]
           ELSE [sw EXCEPT !.st = "who", !.stopPassed = TRUE,
                           !.passed = FALSE, !.i = 0,
                           !.writes = Append(sw.writes, "CMD_WHO_IS_THERE")]
  /\ UNCHANGED <<taskVars, obs, pg, str>>

\* One iteration of the loop that reads the answer to a command: a read of
\* up to sizeof(bfr) bytes; the first answer ends the loop, parsed or not.
\* The answer to who-is-there is terminated with bfr[rv] = 0.
\* A terminator written past the array is undefined behaviour: whatever
\* it overwrites, the outcome of the parse is either value.
DriverAnswerRead ==
  /\ sw.st \in {"who", "rate", "cont"}
  /\ ~sw.answered
  /\ sw.i < READ_RETRIES
  /\ \E rv \in {0, 1, c_bfr_size}, parsed \in BOOLEAN :
       /\ (rv = 0 => ~parsed)
       /\ sw' = IF rv > 0
                THEN [sw EXCEPT !.answered = TRUE, !.passed = parsed,
                                !.termIdx = IF sw.st = "who" THEN rv
                                            ELSE sw.termIdx]
                ELSE [sw EXCEPT !.i = sw.i + 1]
  /\ UNCHANGED <<taskVars, obs, pg, str>>

\* After the loop of an answer: setup returns false, or writes the next
\* command, or returns true.
DriverAnswerEnd ==
  /\ sw.st \in {"who", "rate", "cont"}
  /\ sw.answered \/ sw.i = READ_RETRIES
  /\ sw' = IF ~sw.passed
           THEN [sw EXCEPT !.st = "done", !.result = "false"]
           ELSE IF sw.st = "who"
           THEN [sw EXCEPT !.st = "rate", !.passed = FALSE,
                           !.answered = FALSE, !.i = 0,
                           !.writes = Append(sw.writes,
                                             "CMD_SET_OUTPUT_RATE")]
           ELSE IF sw.st = "rate"
           THEN [sw EXCEPT !.st = "cont", !.passed = FALSE,
                           !.answered = FALSE, !.i = 0,
                           !.writes = Append(sw.writes,
                                             "CMD_CONTINUOUS_COMP")]
           ELSE [sw EXCEPT !.st = "done", !.result = "true"]
  /\ UNCHANGED <<taskVars, obs, pg, str>>

\* ---------------------------------------------- the SW100 driver: read()
\* The bytes a read can deliver: a carriage return and another character.
ReadBytes == {"\r", "a"}

\* The chunks one call of m_stream.read can deliver.
Chunks == UNION {[1..n -> ReadBytes] : n \in 0..MaxChunk}

\* m_sentence[idx] = v: a write outside the array is recorded in oob.
SentenceWrite(d, v) ==
  IF d.m_sentence_idx \in DOMAIN d.m_sentence
  THEN [d EXCEPT !.m_sentence[d.m_sentence_idx] = v]
  ELSE [d EXCEPT !.oob = TRUE]

\* The loop body without the reset of the index when the buffer fills.
ReadByteNoWrap(d, b, first) ==
  IF b = "\r"
  THEN [SentenceWrite(d, "0") EXCEPT !.m_sentence_idx = 0, !.acc = <<>>,
                                     !.parts = 0]
  ELSE [SentenceWrite(d, b) EXCEPT
          !.m_sentence_idx = d.m_sentence_idx + 1, !.acc = Append(d.acc, b),
          !.parts = IF first \/ d.parts = 0 THEN d.parts + 1 ELSE d.parts]

\* The body of the loop of Driver::read for one byte b. acc holds the
\* bytes received since the index was last reset and parts the number of
\* read calls they came from.
ReadByte(d, b, first) ==
  IF b = "\r"
  THEN [SentenceWrite(d, "0") EXCEPT !.m_sentence_idx = 0, !.acc = <<>>,
                                     !.parts = 0]
  ELSE LET w == SentenceWrite(d, b)
           idx == d.m_sentence_idx + 1
       IN IF idx >= SentenceSize
          THEN [w EXCEPT !.m_sentence_idx = 0, !.acc = <<>>, !.parts = 0]
          ELSE [w EXCEPT !.m_sentence_idx = idx, !.acc = Append(d.acc, b),
                         !.parts = IF first \/ d.parts = 0 THEN d.parts + 1
                                   ELSE d.parts]

\* for (int i = 0; i < rv; ++i): the bytes of bfr from position i on.
RECURSIVE ReadLoop(_, _, _)
ReadLoop(d, bfr, i) ==
  IF i > Len(bfr) THEN d
  ELSE ReadLoop(ReadByte(d, bfr[i], i = 1), bfr, i + 1)

\* Driver::read: one read of the stream and the loop over its bytes. The
\* call returns true when a sentence ended in it and sscanf matched it.
DriverRead ==
  /\ sw.st = "done"
  /\ \E bfr \in Chunks, matched \in BOOLEAN :
       /\ matched => \E k \in DOMAIN bfr : bfr[k] = "\r"
       /\ sw' = [ReadLoop(sw, bfr, 1) EXCEPT
                   !.lastRead = IF matched THEN "true" ELSE "false"]
  /\ UNCHANGED <<taskVars, obs, pg, str>>

\* ------------------------------------------------ the PointGrey camera task
\* m_save[m_thread_cnt]-> : the index used and what the slot holds.
Deref(c) ==
  [c EXCEPT !.derefs = c.derefs \cup
     {[idx |-> c.m_thread_cnt,
       slot |-> IF c.m_thread_cnt \in DOMAIN c.m_save
                THEN c.m_save[c.m_thread_cnt] ELSE "outside"]}]

\* The outcomes of the calls of the camera library in setUpCamera.
SetUpOutcomes == {"connect_error", "info_error", "start_error", "ok"}

\* setUpCamera: every failure reports through m_save[m_thread_cnt] and
\* returns false.
SetUpCamera(c, o) ==
  IF o = "connect_error" THEN [c |-> Deref(c), ret |-> FALSE]
  ELSE IF o \in {"info_error", "start_error"}
  THEN [c |-> Deref([c EXCEPT !.connected = TRUE]), ret |-> FALSE]
  ELSE [c |-> [c EXCEPT !.connected = TRUE], ret |-> TRUE]

\* if (m_camera.IsConnected()) { StopCapture(); Disconnect(); } with an
\* error report through m_save[m_thread_cnt] for each call that fails. A
\* camera whose Disconnect failed stays connected.
StopAndDisconnect(c, stopErr, discErr) ==
  IF ~c.connected THEN c
  ELSE LET s == IF stopErr THEN Deref(c) ELSE c
           d == IF discErr THEN Deref(s) ELSE s
       IN [d EXCEPT !.connected = discErr]

\* onResourceInitialization: the index is reset and the eight workers are
\* created and started.
PgOnResourceInitialization ==
  /\ pg.phase = "constructed"
  /\ pg' = [pg EXCEPT !.phase = "initialized", !.m_thread_cnt = 0,
                      !.m_frame_cnt = 0,
                      !.m_save = [k \in DOMAIN pg.m_save |-> "live"],
                      !.derefs = {}, !.op = "onResourceInitialization"]
  /\ UNCHANGED <<taskVars, obs, sw, str>>

\* The start of onMain: setUpCamera, and RestartNeeded when it fails.
PgMainSetUp ==
  /\ pg.phase = "initialized"
  /\ \E o \in SetUpOutcomes :
       LET r == SetUpCamera([pg EXCEPT !.derefs = {}, !.op = "onMain"], o)
       IN pg' = IF r.ret
                THEN [r.c EXCEPT !.phase = "running", !.m_thread_cnt = 0]
                ELSE [r.c EXCEPT !.phase = "failed"]
  /\ UNCHANGED <<taskVars, obs, sw, str>>

\* getImage up to its return: saveInfoExif writes through
\* m_save[m_thread_cnt]; a capture or conversion error is reported
\* through it; otherwise the image is handed to it and the index advances
\* round the eight slots. o is "capture_error", "convert_error", "threw"
\* (saveNewImage throws), "saved" or "not_saved".
GetImage(c, o) ==
  LET e == Deref(c)
  IN IF o \in {"capture_error", "convert_error"}
     THEN [c |-> e, ret |-> FALSE, threw |-> FALSE]
     ELSE IF o = "threw" THEN [c |-> e, ret |-> FALSE, threw |-> TRUE]
     ELSE [c |-> [e EXCEPT !.m_thread_cnt =
                     IF e.m_thread_cnt + 1 >= c_number_task_thread THEN 0
                     ELSE e.m_thread_cnt + 1],
           ret |-> o = "saved", threw |-> FALSE]

GetImageOutcomes ==
  {"capture_error", "convert_error", "threw", "saved", "not_saved"}

\* One iteration of the loop of onMain in which the frame counter has
\* overflowed: getImage, and on failure the restart of the camera.
PgMainCapture ==
  /\ pg.phase = "running"
  /\ pg.m_frame_cnt < MaxFrames
  /\ \E o \in GetImageOutcomes, stopErr \in BOOLEAN, discErr \in BOOLEAN,
        s \in SetUpOutcomes :
       LET g == GetImage([pg EXCEPT !.derefs = {}, !.op = "getImage"], o)
       IN pg' = IF g.threw THEN g.c
                ELSE IF g.ret
                THEN [g.c EXCEPT !.m_frame_cnt = g.c.m_frame_cnt + 1]
                ELSE SetUpCamera(StopAndDisconnect(g.c, stopErr, discErr),
                                 s).c
  /\ UNCHANGED <<taskVars, obs, sw, str>>

\* stopping() becomes true and onMain returns.
PgMainEnd ==
  /\ pg.phase = "running"
  /\ pg' = [pg EXCEPT !.phase = "stopped", !.derefs = {}, !.op = "onMain"]
  /\ UNCHANGED <<taskVars, obs, sw, str>>

\* onResourceRelease: every worker is stopped, deleted and its slot set to
\* NULL; then a connected camera is stopped and disconnected, each error
\* being reported through m_save[m_thread_cnt]. A call through a NULL
\* slot is undefined behaviour: the task crashes or goes on.
PgOnResourceRelease ==
  /\ pg.phase \in {"stopped", "failed"}
  /\ \E stopErr \in BOOLEAN, discErr \in BOOLEAN, crash \in BOOLEAN :
       LET n == [pg EXCEPT !.m_save = [k \in DOMAIN pg.m_save |-> "NULL"],
                           !.derefs = {}, !.op = "onResourceRelease"]
           r == StopAndDisconnect(n, stopErr, discErr)
       IN /\ crash => r.derefs # {}
          /\ pg' = [r EXCEPT !.phase = IF crash THEN "crashed"
                                       ELSE "released"]
  /\ UNCHANGED <<taskVars, obs, sw, str>>

\* ------------------------------------------- String::escape and unescape
\* What String::escape appends for one character.
EscapeChar(c) ==
  IF c = "\n" THEN <<"\\", "n">>
  ELSE IF c = "\r" THEN <<"\\", "r">>
  ELSE IF c = "\t" THEN <<"\\", "t">>
  ELSE <<c>>

\* String::escape: the loop over the characters of input.
RECURSIVE escape(_)
escape(input) ==
  IF input = <<>> THEN <<>>
  ELSE EscapeChar(Head(input)) \o escape(Tail(input))

\* What String::unescape appends for the character c that follows a
\* backslash.
UnescapeChar(c, unescape_all) ==
  IF c = "\\" THEN (IF unescape_all THEN <<"\\">> ELSE <<"\\", "\\">>)
  ELSE IF c = "n" THEN <<"\n">>
  ELSE IF c = "t" THEN <<"\t">>
  ELSE IF c = "r" THEN <<"\r">>
  ELSE IF unescape_all THEN <<c>> ELSE <<"\\", c>>

\* The loop of String::unescape from position src on, tmp being the
\* result so far: a backslash at the end of the input throws.
RECURSIVE UnescapeFrom(_, _, _, _)
UnescapeFrom(input, src, tmp, unescape_all) ==
  IF src > Len(input) THEN [out |-> tmp, threw |-> FALSE]
  ELSE IF input[src] = "\\"
  THEN IF src + 1 > Len(input) THEN [out |-> tmp, threw |-> TRUE]
       ELSE UnescapeFrom(input, src + 2,
                         tmp \o UnescapeChar(input[src + 1], unescape_all),
                         unescape_all)
  ELSE UnescapeFrom(input, src + 1, Append(tmp, input[src]), unescape_all)

\* String::unescape
unescape(input, unescape_all) == UnescapeFrom(input, 1, <<>>, unescape_all)

\* String::escape is applied to the input.
StrEscape ==
  /\ str.st = "input"
  /\ str' = [str EXCEPT !.st = "escaped", !.escaped = escape(str.s)]
  /\ UNCHANGED <<taskVars, obs, sw, pg>>

\* String::unescape is applied to the escaped string.
StrUnescape ==
  /\ str.st = "escaped"
  /\ \E unescape_all \in BOOLEAN :
       LET r == unescape(str.escaped, unescape_all)
       IN str' = [str EXCEPT !.st = "unescaped", !.all = unescape_all,
                             !.unescaped = r.out, !.threw = r.threw]
  /\ UNCHANGED <<taskVars, obs, sw, pg>>

\* --------------------------------------------------------- specifications
AllParams == DOMAIN DefaultArgs

\* Every operation, with every input.
Next ==
  \/ Tick
  \/ Wait
  \/ OnResourceAcquisition
  \/ OnUpdateParameters(AllParams)
  \/ OnMain
  \/ ConsumeHeartbeat
  \/ ConsumeEstimatedState
  \/ ConsumeLoggingControl
  \/ UdpReceive(Addresses, SenderPorts, Byte, Byte, 1..MaxLen, DevOffsets,
                RawDepths, Attitudes)
  \/ TcpReceive(Byte, 1..MaxLen)
  \/ \E t \in Threads : SendWrite(t)
  \/ OnResourceRelease

Spec == Init /\ [][Next]_vars

\* The time-sync policy: telemetry records of both formats with every
\* device clock, the clock, and the parameters the policy reads.
NextSync ==
  \/ Tick
  \/ OnResourceAcquisition
  \/ OnUpdateParameters({"listen_mode", "set_time_of_vehicle"})
  \/ UdpReceive({"127.0.0.1"}, {c_udp_port}, {1, 2}, {1}, {MaxLen},
                DevOffsets, {1500}, {Level})
  \/ SendWrite("udp")

SpecSync == Init /\ [][NextSync]_vars

\* The time-sync policy of a task constructed at a local time whose
\* milliseconds do not fit 32 bits.
SpecClock == InitLate /\ [][NextSync]_vars

\* The outbound path: sendCommand from its three callers on both threads,
\* and the parameters it and the reliable channel read.
NextSend ==
  \/ OnResourceAcquisition
  \/ OnUpdateParameters({"listen_mode", "TCP_addr", "log_pioneer_imc",
                         "generate_estimate_state_from_telemetry"})
  \/ ConsumeHeartbeat
  \/ ConsumeEstimatedState
  \/ UdpReceive({"127.0.0.1"}, {c_udp_port}, {2}, {1}, {MaxLen}, {0, 1101},
                {1500}, {Level})
  \/ \E t \in Threads : SendWrite(t)

SpecSend == Init /\ [][NextSend]_vars

\* The life of the two channels: acquisition, parameter updates, the main
\* loop, the heartbeat and the clock.
NextConn ==
  \/ Tick
  \/ OnResourceAcquisition
  \/ OnUpdateParameters({"listen_mode", "TCP_addr", "TCP_port",
                         "UDP_listen_port"})
  \/ OnMain
  \/ ConsumeHeartbeat
  \/ SendWrite("consumer")

SpecConn == Init /\ [][NextConn]_vars

\* The inbound path: datagrams from every sender and chunks with every
\* leading code and length on both channels.
NextDispatch ==
  \/ OnResourceAcquisition
  \/ OnUpdateParameters({"filter_udp_to_tcp_address", "TCP_addr"})
  \/ UdpReceive(Addresses, SenderPorts, {0, 1, 2}, {1, 2}, 1..MaxLen, {0},
                {1500}, {Level})
  \/ TcpReceive(Byte, 1..MaxLen)

SpecDispatch == Init /\ [][NextDispatch]_vars

\* The loggers and the teardown: the workers receive and send while the
\* consumer handles LoggingControl and while onResourceRelease runs.
NextRelease ==
  \/ OnResourceAcquisition
  \/ OnUpdateParameters({"log_pioneer_imc", "log_pioneer_raw"})
  \/ ConsumeLoggingControl
  \/ UdpReceive({"127.0.0.1"}, {c_udp_port}, {2}, {1, 2}, {MaxLen},
                {1100, 1101}, {1500}, {Level})
  \/ TcpReceive({0, 1}, {MaxLen})
  \/ SendWrite("udp")
  \/ OnResourceRelease

SpecRelease == Init /\ [][NextRelease]_vars

\* Every path that could touch the task's members: the main loop, the
\* consumer's handlers and both dispatchers.
NextOwner ==
  \/ OnResourceAcquisition
  \/ OnMain
  \/ ConsumeHeartbeat
  \/ ConsumeEstimatedState
  \/ ConsumeLoggingControl
  \/ UdpReceive({"127.0.0.1"}, {c_udp_port}, {1, 2}, {1, 2}, {MaxLen},
                {1100, 1101}, {1500}, {Level})
  \/ TcpReceive({0, 1}, {MaxLen})
  \/ \E t \in Threads : SendWrite(t)

SpecOwner == Init /\ [][NextOwner]_vars

\* The watchdog: heartbeats over short and long uptimes, with the reliable
\* channel going up and down.
NextBeat ==
  \/ Tick
  \/ Wait
  \/ OnResourceAcquisition
  \/ OnUpdateParameters({"TCP_port", "listen_mode"})
  \/ ConsumeHeartbeat
  \/ SendWrite("consumer")

SpecBeat == Init /\ [][NextBeat]_vars

\* The telemetry handlers: records of both formats with every raw depth,
\* with and without a correction sent before the handler runs.
NextTelemetry ==
  \/ OnResourceAcquisition
  \/ OnUpdateParameters({"generate_estimate_state_from_telemetry",
                         "set_time_of_vehicle"})
  \/ UdpReceive({"127.0.0.1"}, {c_udp_port}, {1, 2}, {1, 2},
                {MaxLen - 1, MaxLen}, {0, 1101}, RawDepths, Attitudes)
  \/ SendWrite("udp")

SpecTelemetry == Init /\ [][NextTelemetry]_vars

\* The setup of the SW100 driver, with every outcome of every read.
NextDriver ==
  \/ DriverSetupBegin
  \/ DriverStopRead
  \/ DriverStopEnd
  \/ DriverAnswerRead
  \/ DriverAnswerEnd
  \/ DriverRead

SpecDriver == Init /\ [][NextDriver]_vars

\* The life of the PointGrey camera task, with every outcome of every call
\* of the camera library.
NextCamera ==
  \/ PgOnResourceInitialization
  \/ PgMainSetUp
  \/ PgMainCapture
  \/ PgMainEnd
  \/ PgOnResourceRelease

SpecCamera == Init /\ [][NextCamera]_vars

\* escape followed by unescape, for every string of at most MaxStr
\* characters.
InitString == InitWith(EpochStart, Strings)

NextString ==
  \/ StrEscape
  \/ StrUnescape

SpecString == InitString /\ [][NextString]_vars

\* ----------------------------------------------------------------- claims
\* C1: for both dispatchers, a call on a well-formed buffer whose leading
\* type code is not recognized returns a consumed-byte count of at least 1.
\* The code returns rb = 0 from the default branch of both switches.
UnknownCodeConsumesAtLeastOne ==
  (/\ obs.op \in {"pioneerMessagesParse", "pioneerCommandRepliesParse"}
   /\ obs.done
   /\ obs.kind = "unknown"
   /\ obs.len >= 2
   /\ ~obs.threw)
  => obs.ret >= 1

\* A dispatcher has returned from a chunk with an unrecognized code.
UnknownCodeDispatched ==
  /\ obs.op = "pioneerCommandRepliesParse"
  /\ obs.done
  /\ obs.kind = "unknown"
  /\ obs.len >= 2
  /\ obs.ret = 0

\* C2 (as stated): with time-set enabled, listen-only off and the reliable
\* channel Connected, two decoded telemetry frames 2 s apart that both
\* diverge by more than 1100 ms produce exactly one set-system-time command.
TwoFramesExactlyOneCommand ==
  (/\ obs.op = "pioneerMessagesParse"
   /\ obs.done
   /\ obs.sync # "none"
   /\ obs.eligible
   /\ obs.prev.eligible
   /\ obs.syncNow - obs.prev.t = 2)
  => (obs.prev.sent # prevFrame.sent)

\* C2 (amended): two such frames less than 5 s apart never both have a
\* set-system-time command sent for them, so when the command of the first
\* is sent there is exactly one; and any two set-system-time commands that
\* are sent are at least 5 s apart.
SetTimeCommandsSpaced ==
  /\ \A i, j \in DOMAIN syncSent :
       i < j => syncSent[j] - syncSent[i] >= c_set_time_interval
  /\ (/\ obs.op = "pioneerMessagesParse"
      /\ obs.done
      /\ obs.sync # "none"
      /\ obs.eligible
      /\ obs.prev.eligible
      /\ obs.syncNow - obs.prev.t < c_set_time_interval)
     => ~(obs.prev.sent /\ prevFrame.sent)

\* Two diverging frames 2 s apart, the command of the first sent and none
\* for the second.
SecondFrameWithinIntervalSkipped ==
  /\ obs.op = "pioneerMessagesParse"
  /\ obs.done
  /\ obs.eligible
  /\ obs.prev.eligible
  /\ obs.syncNow - obs.prev.t = 2
  /\ obs.prev.sent
  /\ ~prevFrame.sent
  /\ Len(syncSent) = 1

\* C3: setPioneerTime issues a set-system-time command only if the
\* divergence exceeds 1100 ms and at least 5 s have elapsed since
\* m_last_set_time; a frame that diverges by at most 1100 ms, or arrives
\* less than 5 s after the last correction, causes no command and leaves
\* m_last_set_time as it was.
SyncOnlyWhenDivergedAndDue ==
  /\ obs.sync = "issued"
       => /\ obs.sendCalled
          /\ obs.syncDiv > c_divergence_ms
          /\ obs.syncNow - obs.lastBefore >= c_set_time_interval
  /\ (/\ obs.sync # "none"
      /\ \/ obs.syncDiv <= c_divergence_ms
         \/ obs.syncNow - obs.lastBefore < c_set_time_interval)
     => /\ obs.sync \in {"skipped", "noDiverge"}
        /\ ~obs.sendCalled
        /\ ~obs.sendData
        /\ m_last_set_time = obs.lastBefore

\* A correction issued, sent and recorded.
SyncIssuedAndRecorded ==
  /\ obs.sync = "issued"
  /\ obs.done
  /\ obs.sd > 0
  /\ m_last_set_time = obs.syncNow
  /\ obs.lastBefore > 0

\* C4: while listen-only mode is set, sendCommand returns 0 and neither
\* calls sendData nor writes to the command logger or the echo, from every
\* caller (heartbeat, navigation-state update, time sync).
ListenOnlySendsNothing ==
  (/\ obs.op \in {"consume(Heartbeat)", "consume(EstimatedState)",
                  "pioneerMessagesParse"}
   /\ obs.done
   /\ obs.listen)
  => /\ obs.sd = 0
     /\ ~obs.sendData
     /\ ~obs.wrote
     /\ ~obs.logged
     /\ ~obs.cmdEchoCall
     /\ ~obs.cmdEchoed

\* sendCommand called in listen-only mode.
SendCalledInListenOnly ==
  /\ obs.sendCalled
  /\ obs.done
  /\ obs.listen
  /\ obs.sd = 0

DisconnectedSendIsNoOp ==
  /\ (obs.sendCalled /\ obs.done /\ ~obs.conn)
       => /\ obs.sd = 0
          /\ ~obs.sendData
          /\ ~obs.wrote
          /\ ~obs.errLogged
  /\ (obs.sendData /\ ~obs.connAtWrite)
       => /\ obs.sd = 0
          /\ ~obs.wrote
          /\ ~obs.errLogged
  /\ obs.wrote => obs.connAtWrite

\* sendCommand passed its guard on a Connected channel that was
\* Disconnected when sendData ran.
DisconnectedBetweenCheckAndWrite ==
  /\ obs.sendCalled
  /\ obs.done
  /\ obs.conn
  /\ obs.sendData
  /\ ~obs.connAtWrite
  /\ obs.sd = 0

\* C7: sendCommand writes the bytes to the command logger and hands them to
\* dispatchAsDevDataBinary if and only if sendData returned a non-zero
\* count; when the send returns 0 or fails neither receives them.
MirroredIffSent ==
  (obs.sendCalled /\ obs.done)
  => /\ obs.logged <=> obs.sd > 0
     /\ obs.cmdEchoCall <=> obs.sd > 0
     /\ obs.cmdEchoed => obs.sd > 0

\* A command sent, logged and echoed.
CommandSentAndMirrored ==
  /\ obs.sendCalled
  /\ obs.done
  /\ obs.sd > 0
  /\ obs.logged
  /\ obs.cmdEchoed

\* C8: a decode error raised inside either dispatcher is caught there; the
\* dispatcher returns 0, the error does not reach the receive worker and
\* the connection state of both channels is what it was.
DecodeErrorContained ==
  obs.threw
  => /\ obs.op \in {"pioneerMessagesParse", "pioneerCommandRepliesParse"}
     /\ obs.ret = 0
     /\ ~obs.escaped
     /\ obs.handler = "none"
     /\ tcp.state = obs.tcpWas
     /\ udp.state = obs.udpWas

\* A decode error in the telemetry dispatcher.
DecodeErrorInTelemetry ==
  /\ obs.op = "pioneerMessagesParse"
  /\ obs.threw
  /\ obs.kind = "V2Telemetry"
  /\ obs.ret = 0

\* C9: a failure raised by connect of either channel, at resource
\* acquisition or in a parameter-change reconnect, is caught and reported
\* through the entity state with CODE_COM_ERROR, and does not leave the
\* handler. onUpdateParameters has no try block.
ConnectFailureCaughtAndReported ==
  obs.connFail
  => /\ ~obs.escaped
     /\ phase # "failed"
     /\ entityState = ComError

\* A reconnect made by onUpdateParameters has failed.
ReconnectFailedInUpdate ==
  /\ obs.op = "onUpdateParameters"
  /\ obs.connFail
  /\ obs.escaped

\* C10: with filtering on, a datagram whose sender address differs from the
\* reliable channel's peer address is rejected and pioneerMessagesParse is
\* not called for it; with filtering off every datagram is accepted. The
\* result is a function of the flag and the sender address, not the port.
SenderFilterByAddressOnly ==
  obs.op \in {"pioneerMessagesParse", "udpDropped"}
  => /\ obs.accepted <=> (~obs.filt \/ obs.peer = obs.sender)
     /\ obs.dispatched <=> obs.accepted
     /\ obs.op = "pioneerMessagesParse" <=> obs.accepted

\* A datagram from another address dropped with filtering on.
ForeignDatagramDropped ==
  /\ obs.op = "udpDropped"
  /\ obs.filt
  /\ obs.sender # obs.peer
  /\ ~obs.dispatched

SendsOnlyFromConsumer ==
  /\ obs.sendCalled => obs.thread = "consumer"
  /\ \A t \in Threads : pc[t] = "send" => t = "consumer"
  /\ ~(pc["consumer"] = "send" /\ pc["udp"] = "send")

\* Two executions of sendCommand between pack and sendData at once, the
\* buffer holding the bytes of the later one.
SendsOverlapOnBuffer ==
  /\ pc["consumer"] = "send"
  /\ pc["udp"] = "send"
  /\ pend["udp"].cmd = "CmdVersion2SetSystemTime"
  /\ m_buf_send = "CmdVersion1Watchdog"

\* C13: a start or stop of the loggers by the consumer on COP_STARTED or
\* COP_STOPPED is sequenced after the receive workers have drained: no
\* worker is running, or inside a dispatcher that writes to a logger, when
\* it happens. consume(LoggingControl) starts and stops the loggers with
\* both workers running.
LoggerSessionAfterWorkerDrain ==
  (/\ obs.op = "consume(LoggingControl)"
   /\ obs.handler \in {"COP_STARTED", "COP_STOPPED"})
  => /\ ~WorkerRunning("udp")
     /\ ~WorkerRunning("tcp")

\* The loggers stopped while the telemetry worker is inside sendCommand,
\* before its write to the command logger.
LoggersStoppedUnderWorker ==
  /\ obs.op = "consume(LoggingControl)"
  /\ obs.handler = "COP_STOPPED"
  /\ m_loggers = "stopped"
  /\ pc["udp"] = "send"
  /\ udp.worker

\* C14: m_last_set_time has a single writer: it changes only in
\* setPioneerTime, reached from pioneerMessagesParse on the telemetry
\* worker, when the set-system-time command it issued was sent; the
\* command/reply dispatcher and the consumer's handlers never change it.
SyncTimeSingleWriter ==
  [][m_last_set_time' # m_last_set_time
       => /\ obs'.op = "pioneerMessagesParse"
          /\ obs'.thread = "udp"
          /\ obs'.sync = "issued"
          /\ obs'.sd > 0
          /\ m_last_set_time' = now]_vars

\* The timestamp written by the time sync while the consumer is inside
\* sendCommand for a heartbeat.
SyncTimeWrittenByTelemetry ==
  /\ obs.op = "pioneerMessagesParse"
  /\ obs.sync = "issued"
  /\ m_last_set_time = now
  /\ m_buf_send = "CmdVersion1Watchdog"
  /\ pc["consumer"] = "send"

\* C15: two own heartbeats delivered 1 s apart while the reliable channel
\* is Connected both send the watchdog, and the connection_duration of the
\* second is strictly greater than that of the first, for every elapsed
\* time since start. The field is an int16_t: past 32767 s it is not.
WatchdogDurationIncreases ==
  (/\ obs.op = "consume(Heartbeat)"
   /\ obs.own
   /\ obs.conn
   /\ ~obs.listen
   /\ obs.beat.conn
   /\ prevBeat.t - obs.beat.t = 1)
  => /\ obs.sendCalled
     /\ m_watchdog_msg > obs.beat.dur

\* The second of two heartbeats 1 s apart carries a duration that is not
\* greater than the first's.
WatchdogDurationFallsBack ==
  /\ obs.op = "consume(Heartbeat)"
  /\ obs.own
  /\ obs.conn
  /\ obs.beat.conn
  /\ prevBeat.t - obs.beat.t = 1
  /\ obs.sendCalled
  /\ m_watchdog_msg <= obs.beat.dur

\* C16 (as stated): no heartbeat delivered while the reliable channel is
\* Connected is skipped.
EveryHeartbeatResendsWatchdog ==
  (obs.op = "consume(Heartbeat)" /\ obs.conn) => obs.sendCalled

\* C16 (amended): a heartbeat hands m_watchdog_msg to sendCommand exactly
\* when the channel is Connected and the heartbeat's source is the system
\* itself; the record then carries (int16_t)(now - m_start_time); any other
\* heartbeat leaves the record as it was and sends nothing, and nothing is
\* sent while not Connected.
OwnHeartbeatResendsWatchdog ==
  obs.op = "consume(Heartbeat)"
  => /\ obs.sendCalled <=> (obs.conn /\ obs.own)
     /\ obs.sendCalled
          => /\ obs.cmd = "CmdVersion1Watchdog"
             /\ m_watchdog_msg \in Int16Cast(obs.at - m_start_time)
             /\ prevBeat.dur = m_watchdog_msg
     /\ ~obs.sendCalled
          => /\ ~obs.sendData /\ ~obs.wrote /\ obs.sd = 0
             /\ obs.own => prevBeat.dur = m_watchdog_msg
     /\ ~obs.conn => ~obs.sendData /\ ~obs.wrote

\* A heartbeat of another system consumed while Connected, after a
\* watchdog was sent: nothing is sent for it.
ForeignHeartbeatSkipped ==
  /\ obs.op = "consume(Heartbeat)"
  /\ obs.conn
  /\ ~obs.own
  /\ ~obs.sendCalled
  /\ m_watchdog_msg > 0

\* C17: when onUpdateParameters runs after resource acquisition with a
\* changed TCP address, TCP port or listen-only flag, the reliable channel
\* is disconnected and then, with listen-only off, connected to the newly
\* configured address and port, and with listen-only on left Disconnected;
\* when none of the three has changed it is neither disconnected nor
\* connected.
UpdateReconnectsOnTcpChange ==
  (obs.op = "onUpdateParameters" /\ obs.acquired)
  => LET chg == \/ obs.argsWas.TCP_addr # m_args.TCP_addr
                \/ obs.argsWas.TCP_port # m_args.TCP_port
                \/ obs.argsWas.listen_mode # m_args.listen_mode
     IN /\ chg
             => /\ obs.disconnects = 1
                /\ tcp.addr = m_args.TCP_addr
                /\ tcp.port = m_args.TCP_port
                /\ m_args.listen_mode
                     => obs.connects = 0 /\ tcp.state = "Disconnected"
                /\ ~m_args.listen_mode
                     => /\ obs.connects = 1
                        /\ tcp.state = IF connFailed THEN "Disconnected"
                                       ELSE "Connected"
        /\ ~chg
             => /\ obs.disconnects = 0
                /\ obs.connects = 0
                /\ tcp = obs.tcpBefore

\* A changed TCP port after acquisition: the channel is Connected to the
\* new port.
ReconnectedToNewPort ==
  /\ obs.op = "onUpdateParameters"
  /\ obs.acquired
  /\ obs.argsWas.TCP_port # m_args.TCP_port
  /\ obs.tcpBefore.state = "Connected"
  /\ tcp.state = "Connected"
  /\ tcp.port = m_args.TCP_port

\* C18: for a telemetry frame processed with listen-only mode set or with
\* the time-set flag off, no set-system-time command is issued and
\* m_last_set_time is not changed, whatever the divergence.
SyncDisabledIssuesNothing ==
  (/\ obs.op = "pioneerMessagesParse"
   /\ obs.sync # "none"
   /\ obs.argsWas.listen_mode \/ ~obs.argsWas.set_time_of_vehicle)
  => /\ obs.sync = "skipped"
     /\ ~obs.sendCalled
     /\ ~obs.sendData
     /\ obs.sd = 0
     /\ m_last_set_time = obs.lastBefore
     /\ ~prevFrame.sent

\* A diverging frame, due for a correction, skipped in listen-only mode.
DivergingFrameSkippedInListenOnly ==
  /\ obs.op = "pioneerMessagesParse"
  /\ obs.sync = "skipped"
  /\ obs.argsWas.listen_mode
  /\ obs.argsWas.set_time_of_vehicle
  /\ obs.syncDiv > c_divergence_ms
  /\ obs.syncNow - obs.lastBefore >= c_set_time_interval

\* C19: whenever setPioneerTime issues a set-system-time command it
\* records the correction timestamp, whatever the outcome of the send, so
\* that two issued commands are at least 5 s apart. The code records it
\* only when sendCommand returns more than 0.
IssuedCorrectionRecorded ==
  /\ (/\ obs.op = "pioneerMessagesParse"
      /\ obs.done
      /\ obs.sync = "issued")
     => m_last_set_time = obs.syncNow
  /\ (/\ obs.op = "pioneerMessagesParse"
      /\ obs.sync = "issued"
      /\ obs.prev.issued)
     => obs.syncNow - obs.prev.t >= c_set_time_interval

\* Two consecutive diverging frames 1 s apart each issue a command, the
\* send of the first having returned 0.
ConsecutiveFramesBothIssue ==
  /\ obs.op = "pioneerMessagesParse"
  /\ obs.done
  /\ obs.sync = "issued"
  /\ obs.prev.issued
  /\ ~obs.prev.sent
  /\ obs.syncNow - obs.prev.t = 1

\* C20: for every record decoded with a consumed count above 0, on either
\* channel, dispatchAsDevDataBinary is called with exactly the consumed
\* bytes (and dispatches them if and only if log_pioneer_imc is set) before
\* any further processing: before the time sync and before the handler.
\* For telemetry the code calls setPioneerTime first.
EchoBeforeProcessing ==
  (/\ obs.op \in {"pioneerMessagesParse", "pioneerCommandRepliesParse"}
   /\ obs.done
   /\ obs.ret > 0)
  => /\ obs.echoCall
     /\ obs.echoLen = obs.ret
     /\ obs.echoed <=> m_args.log_pioneer_imc
     /\ obs.order[1] = "dispatchAsDevDataBinary"

\* A telemetry record for which the time sync ran before the echo.
TimeSyncBeforeEcho ==
  /\ obs.op = "pioneerMessagesParse"
  /\ obs.done
  /\ obs.kind = "V2Telemetry"
  /\ obs.ret > 0
  /\ obs.sync # "none"
  /\ obs.order[1] = "setPioneerTime"
  /\ obs.order[2] = "dispatchAsDevDataBinary"

\* C21: pioneerCommandRepliesParse on a chunk whose first byte is not the
\* ack, ping-reply or camera-parameter-reply code invokes no handler, emits
\* no raw-binary echo, sends no command and changes no task state.
UnknownReplyHasNoEffect ==
  [][(/\ obs'.op = "pioneerCommandRepliesParse"
      /\ obs'.code \notin {PIONEER_REPLY_VERSION_2_ACK,
                           PIONEER_REPLY_VERSION_2_PING,
                           PIONEER_REPLY_VERSION_2_GET_CAMERA})
     => /\ obs'.handler = "none"
        /\ obs'.order = <<>>
        /\ ~obs'.echoCall
        /\ ~obs'.echoed
        /\ ~obs'.sendCalled
        /\ ~obs'.sendData
        /\ obs'.sync = "none"
        /\ UNCHANGED taskVars]_vars

\* A chunk of a full record's length with an unrecognized first byte,
\* received after a parameter update.
UnknownReplyDispatched ==
  /\ obs.op = "pioneerCommandRepliesParse"
  /\ obs.done
  /\ obs.code = 0
  /\ obs.len = MaxLen
  /\ obs.handler = "none"
  /\ updates > 0

\* C22: neither dispatcher reads a position outside
\* [startIndex, startIndex + length): the type code is read only when the
\* chunk holds it (2 bytes for telemetry, 1 for replies), and a chunk
\* shorter than the record's fixed length is refused. pioneerMessagesParse
\* reads buf[startIndex + 1] whatever the length.
ReadsWithinLength ==
  (obs.op \in {"pioneerMessagesParse", "pioneerCommandRepliesParse"})
  => /\ obs.codeBytes <= obs.len
     /\ obs.ret <= obs.len
     /\ obs.len < FixedLen(obs.kind) => obs.ret = 0 /\ obs.handler = "none"

\* A 1-byte datagram dispatched: the second byte of the code is read past
\* the chunk.
SecondCodeByteReadPastChunk ==
  /\ obs.op = "pioneerMessagesParse"
  /\ obs.done
  /\ obs.len = 1
  /\ obs.codeBytes = 2
  /\ obs.kind = "V2Telemetry"
  /\ obs.ret = 0

GeoLocationIffNotSynthetic ==
  /\ obs.op = "consume(EstimatedState)"
       => /\ obs.sendCalled
               <=> ~obs.argsWas.generate_estimate_state_from_telemetry
          /\ obs.sendCalled => obs.cmd = "CmdVersion1UserGeoLocation"
          /\ ~obs.sendCalled
               => ~obs.sendData /\ ~obs.wrote /\ obs.sd = 0
  /\ (obs.sendCalled /\ obs.cmd = "CmdVersion1UserGeoLocation")
       => /\ obs.op = "consume(EstimatedState)"
          /\ ~obs.argsWas.generate_estimate_state_from_telemetry
  /\ pc["consumer"] = "send"
       /\ pend["consumer"].cmd = "CmdVersion1UserGeoLocation"
       => ~m_args.generate_estimate_state_from_telemetry

\* A navigation-state update consumed with synthetic-estimate generation
\* on and the channel Connected: nothing is handed to sendCommand.
EstimatedStateIgnoredWhenSynthetic ==
  /\ obs.op = "consume(EstimatedState)"
  /\ obs.argsWas.generate_estimate_state_from_telemetry
  /\ ~obs.argsWas.listen_mode
  /\ tcp.state = "Connected"
  /\ ~obs.sendCalled

\* The messages of one type among those dispatched.
PubOf(type) == {i \in DOMAIN obs.pub : obs.pub[i].type = type}

\* C25: for every decoded V2 telemetry record the published depth equals
\* the raw depth field divided by 1000, the fraction kept (raw 1500 gives
\* 1.500), and exactly one depth, one orientation and one temperature are
\* published, plus one synthetic estimate if and only if
\* generate_estimate_state_from_telemetry is set.
V2TelemetryPublishes ==
  (obs.done /\ obs.handler = "handlePioneerV2Telemetry")
  => /\ Cardinality(PubOf("Depth")) = 1
     /\ Cardinality(PubOf("EulerAngles")) = 1
     /\ Cardinality(PubOf("Temperature")) = 1
     /\ Cardinality(PubOf("EstimatedState"))
          = IF m_args.generate_estimate_state_from_telemetry THEN 1 ELSE 0
     /\ Len(obs.pub)
          = IF m_args.generate_estimate_state_from_telemetry THEN 4 ELSE 3
     /\ \A i \in PubOf("Depth") :
          /\ obs.pub[i].value.whole * 1000 + obs.pub[i].value.frac
               = obs.rawDepth
          /\ obs.pub[i].value.frac \in 0..999
     /\ obs.rawDepth = 1500
          => obs.pub[1] = [type |-> "Depth", value |-> Milli(1, 500)]

\* A record with raw depth 1500 handled after its correction was sent,
\* with the synthetic estimate published.
DepthPublishedWithFraction ==
  /\ obs.done
  /\ obs.handler = "handlePioneerV2Telemetry"
  /\ obs.rawDepth = 1500
  /\ obs.sd > 0
  /\ Len(obs.pub) = 4
  /\ obs.pub[1].value = Milli(1, 500)

\* C26: when unpack produces no record for a recognized code (it returns a
\* count <= 0, as for a chunk shorter than the record's fixed length), the
\* dispatcher makes no raw-binary echo, no handler call and no time sync,
\* changes no task state, and returns that count.
RefusedRecordHasNoEffect ==
  [][(/\ obs'.op \in {"pioneerMessagesParse", "pioneerCommandRepliesParse"}
      /\ obs'.kind # "unknown"
      /\ ~obs'.threw
      /\ unpack(obs'.kind, obs'.len, FALSE).rb <= 0)
     => /\ obs'.done
        /\ obs'.ret = unpack(obs'.kind, obs'.len, FALSE).rb
        /\ ~obs'.echoCall
        /\ ~obs'.echoed
        /\ obs'.handler = "none"
        /\ obs'.order = <<>>
        /\ obs'.pub = <<>>
        /\ obs'.sync = "none"
        /\ ~obs'.sendCalled
        /\ UNCHANGED taskVars]_vars

\* A V2 telemetry chunk one byte short of the record, refused.
ShortTelemetryRefused ==
  /\ obs.op = "pioneerMessagesParse"
  /\ obs.kind = "V2Telemetry"
  /\ obs.len = FixedLen("V2Telemetry") - 1
  /\ ~obs.threw
  /\ obs.ret = 0
  /\ obs.handler = "none"

\* The calls of setPioneerTime among the calls made for the record.
SyncCalls == {i \in DOMAIN obs.order : obs.order[i] = "setPioneerTime"}

\* C27: the time-sync policy is invoked for exactly the decoded V1 and V2
\* telemetry records, once per record, and never for compass-calibration
\* records, unknown codes or any record of the command/reply channel.
TimeSyncForTelemetryOnly ==
  LET telemetry == /\ obs.op = "pioneerMessagesParse"
                   /\ obs.kind \in {"V1Telemetry", "V2Telemetry"}
                   /\ obs.ret > 0
  IN /\ obs.sync # "none" <=> telemetry
     /\ (/\ obs.op \in {"pioneerMessagesParse", "pioneerCommandRepliesParse"}
         /\ obs.done)
          => Cardinality(SyncCalls) = IF telemetry THEN 1 ELSE 0
     /\ obs.op = "pioneerCommandRepliesParse"
          => ~obs.sendCalled /\ obs.lastBefore = 0

\* A decoded V1 telemetry record: the policy ran once, before the echo.
TimeSyncRanForV1Record ==
  /\ obs.op = "pioneerMessagesParse"
  /\ obs.done
  /\ obs.kind = "V1Telemetry"
  /\ obs.ret = FixedLen("V1Telemetry")
  /\ obs.sync = "noDiverge"
  /\ SyncCalls = {1}

StopPhaseNeedsTenEmptyReads ==
  /\ (sw.st = "stop" /\ sw.passed) => sw.empties = READ_RETRIES
  /\ (sw.st = "stop" /\ sw.empties >= READ_RETRIES) => sw.passed
  /\ sw.st # "stop" /\ sw.st # "idle"
       => /\ sw.stopPassed <=> sw.empties >= READ_RETRIES
          /\ ~sw.stopPassed
               => /\ sw.result = "false"
                  /\ sw.writes = <<"CMD_STOP_CONTINUOUS">>
  /\ sw.i <= READ_RETRIES * 5

\* Exactly ten of the fifty reads returned no data and setup returned
\* false.
TenEmptyReadsFail ==
  /\ sw.st = "done"
  /\ sw.empties = READ_RETRIES
  /\ sw.i = READ_RETRIES * 5
  /\ ~sw.stopPassed
  /\ sw.result = "false"
  /\ sw.writes = <<"CMD_STOP_CONTINUOUS">>

\* C30: in every state after resource acquisition, if listen-only mode is
\* set the reliable channel is Disconnected: it is not connected at
\* acquisition in listen-only mode, and a parameter update that turns
\* listen-only on disconnects it.
ListenOnlyMeansDisconnected ==
  /\ (phase # "constructed" /\ m_args.listen_mode)
       => tcp.state = "Disconnected"
  /\ (obs.op = "onResourceAcquisition" /\ m_args.listen_mode)
       => obs.connects = 0
  /\ (obs.op = "onUpdateParameters" /\ obs.acquired /\ m_args.listen_mode)
       => obs.connects = 0

\* Listen-only turned on by an update while the channel was Connected.
ListenOnlyTurnedOnWhileConnected ==
  /\ obs.op = "onUpdateParameters"
  /\ obs.acquired
  /\ m_args.listen_mode
  /\ ~obs.argsWas.listen_mode
  /\ obs.tcpBefore.state = "Connected"
  /\ tcp.state = "Disconnected"

\* C31: m_error_missing is false in every reachable state, so every
\* iteration of onMain sets the entity state to NORMAL/ACTIVE: a
\* CODE_COM_ERROR set by a failed connect is overwritten by the next
\* iteration while the channel is still Disconnected.
MainLoopOverwritesComError ==
  /\ m_error_missing = FALSE
  /\ obs.op = "onMain" => entityState = Active
  /\ entityState = ComError
       => obs.op \in {"onResourceAcquisition", "onUpdateParameters",
                      "consume(Heartbeat)", "none"}

\* The main loop has run after a failed connect: the entity state is
\* NORMAL/ACTIVE and the channel is still Disconnected.
ComErrorOverwrittenWhileDisconnected ==
  /\ obs.op = "onMain"
  /\ connFailed
  /\ ~m_args.listen_mode
  /\ tcp.state = "Disconnected"
  /\ entityState = Active

\* C32: with synthetic-estimate generation on, the depth of the synthetic
\* estimate published for a V2 telemetry record equals the depth published
\* as the depth measurement of that record (raw / 1000), and its
\* orientation equals the published orientation triple. The estimate
\* carries the raw field, not divided.
EstimateMatchesMeasurements ==
  (obs.done /\ obs.handler = "handlePioneerV2Telemetry")
  => \A e \in PubOf("EstimatedState") :
       /\ \A d \in PubOf("Depth") : obs.pub[e].depth = obs.pub[d].value
       /\ \A a \in PubOf("EulerAngles") :
            /\ obs.pub[e].phi = obs.pub[a].phi
            /\ obs.pub[e].theta = obs.pub[a].theta
            /\ obs.pub[e].psi = obs.pub[a].psi

\* A record with raw depth 1500: the measurement is 1.500 and the estimate
\* carries 1500.
EstimateCarriesRawDepth ==
  /\ obs.done
  /\ obs.handler = "handlePioneerV2Telemetry"
  /\ obs.rawDepth = 1500
  /\ obs.attitude # Level
  /\ Len(obs.pub) = 4
  /\ obs.pub[1].value = Milli(1, 500)
  /\ obs.pub[4].depth = Milli(1500, 0)
  /\ obs.pub[4].psi = obs.pub[2].psi

\* C33: the connection_duration sent on a heartbeat equals the whole
\* number of seconds elapsed since m_start_time, is non-negative, and is
\* not less than the one sent before, for every elapsed time, also above
\* 32767 s. The field is an int16_t: above 32767 s the cast is out of range.
WatchdogDurationIsElapsed ==
  (obs.op = "consume(Heartbeat)" /\ obs.sendCalled)
  => /\ m_watchdog_msg = obs.at - m_start_time
     /\ m_watchdog_msg >= 0
     /\ obs.beat.conn => m_watchdog_msg >= obs.beat.dur

\* A watchdog handed to sendCommand more than 32767 s after start: its
\* duration is not the elapsed time.
WatchdogDurationOutOfRange ==
  /\ obs.op = "consume(Heartbeat)"
  /\ obs.sendCalled
  /\ obs.at - m_start_time > c_int16_max
  /\ m_watchdog_msg # obs.at - m_start_time
  /\ m_watchdog_msg < 0

\* C34: for a device whose millisecond clock agrees with the local epoch
\* time to within 1100 ms, the divergence computed by setPioneerTime
\* (local seconds times 1000 minus the uint32_t device milliseconds) is at
\* most 1100 and no set-system-time command is issued for the frame.
\* Epoch milliseconds do not fit a uint32_t.
AgreeingClockIssuesNothing ==
  (/\ obs.op = "pioneerMessagesParse"
   /\ obs.sync # "none"
   /\ Abs(obs.devOff) <= c_divergence_ms)
  => /\ obs.syncDiv <= c_divergence_ms
     /\ obs.sync # "issued"
     /\ ~obs.sendCalled

\* A frame whose device clock differs from local time by exactly 1100 ms,
\* more than 2^32 ms after the epoch: a correction is issued and sent.
AgreeingClockCorrected ==
  /\ obs.op = "pioneerMessagesParse"
  /\ obs.done
  /\ obs.devOff = c_divergence_ms
  /\ obs.syncNow > c_uint32.s
  /\ obs.syncDiv > c_divergence_ms
  /\ obs.sync = "issued"
  /\ obs.sd > 0

\* C35: after every call of Driver::read the sentence index is inside the
\* sentence buffer and no write went outside it, and the buffer holds, up
\* to the index, the bytes received since the index was last reset (by a
\* carriage return or by the buffer filling), whatever the number of read
\* calls they arrived in.
SentenceIndexInBounds ==
  /\ sw.m_sentence_idx \in 0..(SentenceSize - 1)
  /\ ~sw.oob
  /\ sw.m_sentence_idx = Len(sw.acc)
  /\ \A k \in 1..Len(sw.acc) : sw.m_sentence[k - 1] = sw.acc[k]

\* A sentence that arrived in two read calls, in a buffer that has
\* already filled once and has seen a carriage return.
SentenceSplitAcrossReads ==
  /\ sw.lastRead # "none"
  /\ sw.parts >= 2
  /\ sw.m_sentence_idx >= 2
  /\ sw.m_sentence[SentenceSize - 1] = "a"
  /\ \E k \in DOMAIN sw.m_sentence : sw.m_sentence[k] = "0"

\* C36: the terminating write bfr[rv] = 0 of the answer to who-is-there
\* lands inside the 64-byte buffer (positions 0 to 63) for every byte
\* count the read returns.
TerminatorInsideBuffer ==
  sw.answered => sw.termIdx \in 0..(c_bfr_size - 1)

\* The read of the answer to who-is-there filled the buffer: the
\* terminator was written at position 64, one past the last element.
TerminatorPastBuffer ==
  /\ sw.st = "who"
  /\ sw.answered
  /\ sw.termIdx = c_bfr_size

\* C37: every dereference of m_save[m_thread_cnt] uses an index from 0 to
\* 7 and a slot that holds a live worker, in every operation of the task,
\* onResourceRelease included.
EveryDerefLive ==
  \A d \in pg.derefs :
    d.idx \in 0..(c_number_task_thread - 1) /\ d.slot = "live"

\* onResourceRelease reported an error of the camera through a slot it had
\* just set to NULL.
NullWorkerDereferenced ==
  /\ pg.op = "onResourceRelease"
  /\ pg.m_save[pg.m_thread_cnt] = "NULL"
  /\ \E d \in pg.derefs : d.idx = pg.m_thread_cnt /\ d.slot = "NULL"

\* C38: unescape(escape(s), true) returns s and does not throw, for every
\* string s, strings with backslashes included.
EscapeRoundTrip ==
  (str.st = "unescaped" /\ str.all) => (~str.threw /\ str.unescaped = str.s)

\* A string that ends with a backslash: escape leaves the backslash as it
\* is and unescape throws on it.
RoundTripThrows ==
  /\ str.st = "unescaped"
  /\ str.all
  /\ str.s # <<>>
  /\ str.s[Len(str.s)] = "\\"
  /\ str.escaped = str.s
  /\ str.threw
====
